---------------------------- MODULE Spec2Model ----------------------------
(***************************************************************************)
(* CreatureStudio: species-blueprint validation (the pydantic models of    *)
(* app/models/blueprint.py with the anatomy-V2 graph validator) and the    *)
(* data-only bundle export of app/services/export_service.py.              *)
(*                                                                         *)
(* Encoding conventions                                                    *)
(*  - a JSON value is a record [t, n, s, l]: t is the JSON type, n the     *)
(*    number (booleans as 0/1), s the string, l the list of strings;       *)
(*  - numbers are integers; a float of the source is given in hundredths   *)
(*    (0.6 is 60, 1.0 is 100);                                             *)
(*  - Optional[T] fields of material definitions are sets with at most one *)
(*    element ({} is None);                                                *)
(*  - a JSON object is a function from its keys (strings) to values;       *)
(*  - a display name is a sequence of one-character strings, so that       *)
(*    lower(), substring search and re.sub can be computed.                *)
(***************************************************************************)
EXTENDS Integers, Sequences, FiniteSets, TLC

\* The reading of the UTC clock (datetime.now(timezone.utc)).
VARIABLE clock

(***************************************************************************)
(* JSON values                                                             *)
(***************************************************************************)
JNum(x)  == [t |-> "num",  n |-> x, s |-> "", l |-> <<>>]
JStr(x)  == [t |-> "str",  n |-> 0, s |-> x,  l |-> <<>>]
JBool(b) == [t |-> "bool", n |-> IF b THEN 1 ELSE 0, s |-> "", l |-> <<>>]
JList(q) == [t |-> "list", n |-> 0, s |-> "", l |-> q]
JNull    == [t |-> "null", n |-> 0, s |-> "", l |-> <<>>]

EmptyDoc == [k \in {} |-> JNull]

\* An empty directory, an empty dict.
NoFiles == [f \in {} |-> 0]

InSet(S, x) == x \in S

NotInSet(S, x) == x \notin S

\* Python truthiness of a JSON value (used by `x or []`).
Truthy(v) ==
    CASE v.t = "null" -> FALSE
      [] v.t = "num"  -> v.n # 0
      [] v.t = "bool" -> v.n = 1
      [] v.t = "str"  -> v.s # ""
      [] v.t = "list" -> v.l # <<>>

(***************************************************************************)
(* Generator option models (blueprint.py 156-247).  A field is             *)
(* [name, type, ge, default]; ge is {} when the field has no lower bound.  *)
(***************************************************************************)
Fld(name, type, ge, default) ==
    [name |-> name, type |-> type, ge |-> ge, default |-> default]

LimbOptionsModel ==
    << Fld("radii", "floatlist", {}, JList(<<>>)),
       Fld("sides", "int", {3}, JNum(16)),
       Fld("capStart", "bool", {}, JBool(TRUE)),
       Fld("capEnd", "bool", {}, JBool(TRUE)) >>

NeckOptionsModel ==
    << Fld("radii", "floatlist", {}, JList(<<>>)),
       Fld("sides", "int", {3}, JNum(18)),
       Fld("yOffset", "float", {}, JNum(0)),
       Fld("capBase", "bool", {}, JBool(TRUE)),
       Fld("capEnd", "bool", {}, JBool(TRUE)) >>

HeadOptionsModel ==
    << Fld("parentBone", "str", {}, JStr("head")),
       Fld("radius", "float", {0}, JNum(60)),
       Fld("sides", "int", {3}, JNum(22)),
       Fld("elongation", "float", {0}, JNum(100)) >>

TorsoOptionsModel ==
    << Fld("radii", "floatlist", {}, JList(<<>>)),
       Fld("sides", "int", {3}, JNum(28)),
       Fld("radiusProfile", "optstr", {}, JNull),
       Fld("rumpBulgeDepth", "float", {}, JNum(0)),
       Fld("extendRumpToRearLegs", "optmodel", {}, JNull),
       Fld("capStart", "bool", {}, JBool(TRUE)),
       Fld("capEnd", "bool", {}, JBool(TRUE)),
       Fld("lowPoly", "bool", {}, JBool(FALSE)),
       Fld("lowPolySegments", "int", {3}, JNum(9)),
       Fld("lowPolyWeldTolerance", "float", {0}, JNum(0)) >>

NoseOptionsModel ==
    << Fld("radii", "floatlist", {}, JList(<<>>)),
       Fld("baseRadius", "float", {0}, JNum(20)),
       Fld("midRadius", "optfloat", {0}, JNull),
       Fld("tipRadius", "float", {0}, JNum(10)),
       Fld("sides", "int", {3}, JNum(16)),
       Fld("capStart", "bool", {}, JBool(TRUE)),
       Fld("capEnd", "bool", {}, JBool(TRUE)),
       Fld("lengthScale", "float", {0}, JNum(100)),
       Fld("rootBone", "optstr", {}, JNull) >>

TailOptionsModel ==
    << Fld("radii", "floatlist", {}, JList(<<>>)),
       Fld("baseRadius", "float", {0}, JNum(12)),
       Fld("tipRadius", "float", {0}, JNum(5)),
       Fld("sides", "int", {3}, JNum(14)),
       Fld("capStart", "bool", {}, JBool(TRUE)),
       Fld("capEnd", "bool", {}, JBool(TRUE)) >>

EarOptionsModel ==
    << Fld("radii", "floatlist", {}, JList(<<>>)),
       Fld("sides", "int", {3}, JNum(16)),
       Fld("flatten", "float", {0}, JNum(20)),
       Fld("tilt", "float", {}, JNum(0)) >>

\* The members of the BodyPartOptions union in declaration order; the last
\* member, Dict[str, Any], is the untyped record and has no field list.
BodyPartOptions ==
    << [variant |-> "TorsoOptionsModel", fields |-> TorsoOptionsModel],
       [variant |-> "NeckOptionsModel",  fields |-> NeckOptionsModel],
       [variant |-> "HeadOptionsModel",  fields |-> HeadOptionsModel],
       [variant |-> "NoseOptionsModel",  fields |-> NoseOptionsModel],
       [variant |-> "TailOptionsModel",  fields |-> TailOptionsModel],
       [variant |-> "EarOptionsModel",   fields |-> EarOptionsModel],
       [variant |-> "LimbOptionsModel",  fields |-> LimbOptionsModel] >>

DictVariant == "dict"

FieldNames(fields) == {fields[i].name : i \in DOMAIN fields}

\* Field-level validation of one value against one declared field.
ValidField(f, v) ==
    /\ CASE f.type = "int"       -> v.t = "num"
         [] f.type = "float"     -> v.t = "num"
         [] f.type = "bool"      -> v.t = "bool"
         [] f.type = "str"       -> v.t = "str"
         [] f.type = "optstr"    -> v.t \in {"str", "null"}
         [] f.type = "optfloat"  -> v.t \in {"num", "null"}
         [] f.type = "optmodel"  -> v.t = "null"
         [] f.type = "floatlist" -> v.t = "list" /\ v.l = <<>>
    /\ (v.t = "num" => \A b \in f.ge : v.n >= b)

\* A pydantic model accepts a document when every declared field that the
\* document carries is valid; keys the model does not declare are ignored.
Accepts(fields, doc) ==
    \A i \in DOMAIN fields :
        fields[i].name \in DOMAIN doc => ValidField(fields[i], doc[fields[i].name])

\* The validated model instance: declared fields only, defaults filled in.
ParseModel(fields, doc) ==
    [k \in FieldNames(fields) |->
        LET f == CHOOSE g \in {fields[i] : i \in DOMAIN fields} : g.name = k
        IN  IF k \in DOMAIN doc THEN doc[k] ELSE f.default]

\* Number of declared fields the document sets explicitly (model_fields_set).
FieldsSetCount(fields, doc) == Cardinality(FieldNames(fields) \cap DOMAIN doc)

(***************************************************************************)
(* Resolution of the BodyPartOptions union (blueprint.py 250-259).  Which  *)
(* member a dict input resolves to is decided by pydantic, and differs by  *)
(* union mode:                                                             *)
(*   "left_to_right": the first member that accepts the input;             *)
(*   "smart": an empty dict is an exact match of Dict[str, Any]; otherwise *)
(*            the accepting model with the most fields set, the leftmost   *)
(*            on a tie; the untyped record when no model accepts.          *)
(***************************************************************************)
UnionModes == {"left_to_right", "smart"}

AcceptingMembers(doc) ==
    {i \in DOMAIN BodyPartOptions : Accepts(BodyPartOptions[i].fields, doc)}

MinOf(S) == CHOOSE i \in S : \A j \in S : i <= j

LeftToRightChoice(doc) == MinOf(AcceptingMembers(doc))

SmartChoice(doc) ==
    LET acc  == AcceptingMembers(doc)
        best == {i \in acc : \A j \in acc :
                    FieldsSetCount(BodyPartOptions[i].fields, doc)
                        >= FieldsSetCount(BodyPartOptions[j].fields, doc)}
    IN  MinOf(best)

TypedOptions(i, doc) ==
    [variant |-> BodyPartOptions[i].variant,
     data    |-> ParseModel(BodyPartOptions[i].fields, doc)]

UntypedOptions(doc) == [variant |-> DictVariant, data |-> doc]

ResolveOptions(mode, doc) ==
    IF AcceptingMembers(doc) = {} THEN UntypedOptions(doc)
    ELSE IF mode = "left_to_right" THEN TypedOptions(LeftToRightChoice(doc), doc)
    ELSE IF DOMAIN doc = {} THEN UntypedOptions(doc)
    ELSE TypedOptions(SmartChoice(doc), doc)

\* BodyPartDefinition (blueprint.py 116-135): options defaults to an empty
\* dict, which pydantic does not validate, when the document has no options.
ParseBodyPart(mode, p) ==
    [name      |-> p.name,
     generator |-> p.generator,
     chain     |-> p.chain,
     options   |-> IF p.hasOptions THEN ResolveOptions(mode, p.options)
                   ELSE UntypedOptions(EmptyDoc)]

\* model_dump() of the options (export_service.py 54-61): a model instance
\* dumps its declared fields, a dict is returned as it is.
SerializableBodyPartOptions(options) == options.data

(***************************************************************************)
(* Material definitions (blueprint.py 293-313): roughness, metallic and    *)
(* specular are Optional floats constrained to [0, 1].                     *)
(***************************************************************************)
UnitMax == 100

UnitRangeOk(opt) == \A x \in opt : x >= 0 /\ x <= UnitMax

MaterialDefinitionOk(d) ==
    UnitRangeOk(d.roughness) /\ UnitRangeOk(d.metallic) /\ UnitRangeOk(d.specular)

\* The locations of the field-level violations of a materials configuration.
MaterialFieldErrors(m) ==
    {k \in {"surface", "eye", "tusk", "nail"} :
        \E d \in m[k] : ~MaterialDefinitionOk(d)}
    \cup {m.extraMaterials[i].key : i \in
            {j \in DOMAIN m.extraMaterials : ~MaterialDefinitionOk(m.extraMaterials[j].def)}}

(***************************************************************************)
(* The graph validator, SpeciesBlueprint.validate_chains_and_bodyparts     *)
(* (blueprint.py 351-387).  An error is the ValueError the validator       *)
(* raises: its kind, the chain or body part it is about (subject), the     *)
(* names it lists, the chain a body part targets, and the known chains.    *)
(***************************************************************************)
NameOrder == <<"c1", "c2", "c3", "c4", "cx", "ghost", "none">>

\* sorted(chain_names), by the lexicographic order of the names in use.
SortedNames(S) == SelectSeq(NameOrder, LAMBDA x : InSet(S, x))

NoError == [kind |-> "none", subject |-> "", names |-> <<>>, target |-> "", known |-> <<>>]

GraphError(kind, subject, names, target, known) ==
    [kind |-> kind, subject |-> subject, names |-> names, target |-> target, known |-> known]

ChainNames(chainsV2) == {chainsV2[i].name : i \in DOMAIN chainsV2}

SkeletonBones(bones) == {bones[i].name : i \in DOMAIN bones}

\* Mutant: only the first missing bone of the chain is collected.
MissingBonesFirstOnly(chain, skeleton_bones) ==
    LET all == SelectSeq(chain.bones, LAMBDA b : NotInSet(skeleton_bones, b))
    IN  IF all = <<>> THEN <<>> ELSE <<Head(all)>>

\* [bone for bone in chain.bones if bone not in skeleton_bones]
MissingBones(chain, skeleton_bones) ==
    SelectSeq(chain.bones, LAMBDA b : NotInSet(skeleton_bones, b))

\* options.get("additionalChains") or []
AdditionalChains(data) ==
    IF "additionalChains" \in DOMAIN data /\ Truthy(data["additionalChains"])
    THEN data["additionalChains"].l
    ELSE <<>>

\* [name for name in additional if name not in chain_names]; the lookup is
\* made only when the options are a dict (isinstance(options, dict)).
MissingAdditional(part, chain_names) ==
    IF part.options.variant = DictVariant
    THEN SelectSeq(AdditionalChains(part.options.data), LAMBDA c : NotInSet(chain_names, c))
    ELSE <<>>

\* Mutant: the membership check of part.chain is left out.
PartErrorNoChainCheck(part, chain_names) ==
    IF MissingAdditional(part, chain_names) # <<>>
    THEN GraphError("unknown_additional", part.name,
                    MissingAdditional(part, chain_names), "", <<>>)
    ELSE NoError

\* The body of the loop over bodyPartsV2 for one part (lines 370-385).
PartError(part, chain_names) ==
    IF part.chain \notin chain_names
    THEN GraphError("unknown_chain", part.name, <<>>, part.chain,
                    IF chain_names = {} THEN <<"none">> ELSE SortedNames(chain_names))
    ELSE IF MissingAdditional(part, chain_names) # <<>>
    THEN GraphError("unknown_additional", part.name,
                    MissingAdditional(part, chain_names), "", <<>>)
    ELSE NoError

\* The body of the loop over chainsV2 for one chain (lines 362-366).
ChainError(chain, skeleton_bones) ==
    IF MissingBones(chain, skeleton_bones) # <<>>
    THEN GraphError("missing_bones", chain.name, MissingBones(chain, skeleton_bones), "", <<>>)
    ELSE NoError

\* Mutant: the loop keeps going and the last error wins.
LastError(errs) ==
    LET bad == {i \in DOMAIN errs : errs[i].kind # "none"}
    IN  IF bad = {} THEN NoError ELSE errs[CHOOSE i \in bad : \A j \in bad : i >= j]

\* A loop that raises at the first element with an error.
FirstError(errs) ==
    LET bad == {i \in DOMAIN errs : errs[i].kind # "none"}
    IN  IF bad = {} THEN NoError ELSE errs[MinOf(bad)]

\* Mutant: the "chainsV2 must be provided" precondition is left out.
ValidateWithoutChainsRequired(bp) ==
    LET chain_names    == ChainNames(bp.chainsV2)
        skeleton_bones == SkeletonBones(bp.bones)
        chainErr == FirstError([i \in DOMAIN bp.chainsV2 |->
                                  ChainError(bp.chainsV2[i], skeleton_bones)])
        partErr  == FirstError([i \in DOMAIN bp.bodyPartsV2 |->
                                  PartError(bp.bodyPartsV2[i], chain_names)])
    IN  IF chainErr.kind # "none" THEN chainErr ELSE partErr

\* Mutant: the validator also checks the legacy maps: a bone of a legacy
\* chain that the skeleton lacks is reported like a chainsV2 one.
ValidateLegacyMapsToo(bp) ==
    LET skeleton_bones == SkeletonBones(bp.bones)
        dangling == {k \in UNION {DOMAIN m : m \in bp.chains} :
                        \E m \in bp.chains : MissingBones([bones |-> m[k]], skeleton_bones) # <<>>}
    IN  IF dangling # {}
        THEN GraphError("missing_bones", "legacy", <<>>, "", <<>>)
        ELSE ValidateWithoutChainsRequired(bp)

ValidateChainsAndBodyparts(bp) ==
    LET chain_names    == ChainNames(bp.chainsV2)
        skeleton_bones == SkeletonBones(bp.bones)
        chainErr == FirstError([i \in DOMAIN bp.chainsV2 |->
                                  ChainError(bp.chainsV2[i], skeleton_bones)])
        partErr  == FirstError([i \in DOMAIN bp.bodyPartsV2 |->
                                  PartError(bp.bodyPartsV2[i], chain_names)])
    IN  IF bp.bodyPartsV2 # <<>> /\ chain_names = {}
        THEN GraphError("chains_required", "", <<>>, "", <<>>)
        ELSE IF chainErr.kind # "none" THEN chainErr
        ELSE partErr

(***************************************************************************)
(* SpeciesBlueprint.parse_obj: field-level validation of the document,     *)
(* construction of the typed blueprint, then the graph validator (a        *)
(* mode="after" validator runs only when no field failed).                 *)
(***************************************************************************)
\* BodyPartRef (blueprint.py 262-270) of the legacy bodyParts mapping.
ParseBodyPartRef(mode, r) ==
    [generator |-> r.generator,
     chain     |-> r.chain,
     options   |-> IF r.hasOptions THEN ResolveOptions(mode, r.options)
                   ELSE UntypedOptions(EmptyDoc)]

\* BodyPartsConfig (blueprint.py 273-290): the fixed slots that are set,
\* and extraParts in document order.
ParseBodyPartsConfig(mode, c) ==
    [refs       |-> [k \in DOMAIN c.refs |-> ParseBodyPartRef(mode, c.refs[k])],
     extraParts |-> [i \in DOMAIN c.extraParts |->
                        [key |-> c.extraParts[i].key,
                         ref |-> ParseBodyPartRef(mode, c.extraParts[i].ref)]]]

TypedBlueprint(mode, doc) ==
    [doc EXCEPT
        !.bodyPartsV2 =
            [i \in DOMAIN doc.bodyPartsV2 |-> ParseBodyPart(mode, doc.bodyPartsV2[i])],
        !.bodyParts = {ParseBodyPartsConfig(mode, c) : c \in doc.bodyParts}]

ParseObj(mode, doc) ==
    LET fieldErrors == MaterialFieldErrors(doc.materials)
        bp          == TypedBlueprint(mode, doc)
        graph       == ValidateChainsAndBodyparts(bp)
    IN  IF fieldErrors # {}
        THEN [status |-> "field_error", fields |-> fieldErrors, error |-> NoError]
        ELSE IF graph.kind # "none"
        THEN [status |-> "graph_error", fields |-> {}, error |-> graph]
        ELSE [status |-> "ok", fields |-> {}, error |-> NoError]

DumpBodyPartRef(r) ==
    [generator  |-> r.generator,
     chain      |-> r.chain,
     hasOptions |-> TRUE,
     options    |-> SerializableBodyPartOptions(r.options)]

\* SpeciesBlueprint.model_dump(): the plain document of a typed blueprint.
ModelDump(bp) ==
    [bp EXCEPT
        !.bodyPartsV2 =
            [i \in DOMAIN bp.bodyPartsV2 |->
                [name       |-> bp.bodyPartsV2[i].name,
                 generator  |-> bp.bodyPartsV2[i].generator,
                 chain      |-> bp.bodyPartsV2[i].chain,
                 hasOptions |-> TRUE,
                 options    |-> SerializableBodyPartOptions(bp.bodyPartsV2[i].options)]],
        !.bodyParts =
            {[refs       |-> [k \in DOMAIN c.refs |-> DumpBodyPartRef(c.refs[k])],
              extraParts |-> [i \in DOMAIN c.extraParts |->
                                [key |-> c.extraParts[i].key,
                                 ref |-> DumpBodyPartRef(c.extraParts[i].ref)]]] :
                c \in bp.bodyParts}]

(***************************************************************************)
(* Strings as character sequences: str.lower(), `x in s`, re.sub.          *)
(***************************************************************************)
UpperCase == <<"A", "B", "C", "D", "E", "F", "G", "H", "I", "J", "K", "L", "M",
               "N", "O", "P", "Q", "R", "S", "T", "U", "V", "W", "X", "Y", "Z">>

LowerCase == <<"a", "b", "c", "d", "e", "f", "g", "h", "i", "j", "k", "l", "m",
               "n", "o", "p", "q", "r", "s", "t", "u", "v", "w", "x", "y", "z">>

Digits == <<"0", "1", "2", "3", "4", "5", "6", "7", "8", "9">>

LowerChar(c) ==
    IF \E i \in DOMAIN UpperCase : UpperCase[i] = c
    THEN LowerCase[CHOOSE i \in DOMAIN UpperCase : UpperCase[i] = c]
    ELSE c

Lower(str) == [i \in DOMAIN str |-> LowerChar(str[i])]

\* needle in haystack
Contains(haystack, needle) ==
    \E k \in 0..(Len(haystack) - Len(needle)) :
        \A i \in 1..Len(needle) : haystack[k + i] = needle[i]

ElephantWord == <<"e", "l", "e", "p", "h", "a", "n", "t">>

SafeChars ==
    {UpperCase[i] : i \in DOMAIN UpperCase} \cup {LowerCase[i] : i \in DOMAIN LowerCase}
    \cup {Digits[i] : i \in DOMAIN Digits} \cup {"_"}

\* Mutant: the pattern is [^A-Za-z], digits and underscores are stripped too.
SafeAnimalNameLettersOnly(name) ==
    SelectSeq(name, LAMBDA c : \E k \in DOMAIN UpperCase : c \in {UpperCase[k], LowerCase[k]})

\* _safe_animal_name: re.sub(r"[^A-Za-z0-9_]", "", name)
SafeAnimalName(name) == SelectSeq(name, LAMBDA c : InSet(SafeChars, c))

(***************************************************************************)
(* Material Resolver (export_service.py 64-145)                            *)
(***************************************************************************)
FallbackAlbedoTint  == "#7a6f63"
FallbackRoughness   == 78
DisplacementConstant == 2

TheOne(S) == CHOOSE x \in S : TRUE

\* Mutant: every field is copied only when truthy, so a 0.0 is dropped.
SlotParametersTruthyOnly(definition) ==
    LET keys == {k \in {"color", "emissive"} : definition[k] # {} /\ definition[k] # {""}}
                \cup {k \in {"roughness", "metallic", "specular"} :
                        definition[k] # {} /\ definition[k] # {0}}
    IN  [k \in keys |-> TheOne(definition[k])]

\* The parameters dict: color and emissive are copied when truthy,
\* roughness, metallic and specular when not None.
SlotParameters(definition) ==
    LET keys == {k \in {"color", "emissive"} : definition[k] # {} /\ definition[k] # {""}}
                \cup {k \in {"roughness", "metallic", "specular"} : definition[k] # {}}
    IN  [k \in keys |-> TheOne(definition[k])]

\* Mutant: parameters.get("roughness") or 0.78, a roughness of 0 falls back.
NodeGraphRoughnessOrFallback(parameters) ==
    [graph |-> "elephantSkinTSL",
     parameters |->
        [albedoTint   |-> IF "color" \in DOMAIN parameters
                          THEN parameters["color"] ELSE FallbackAlbedoTint,
         roughness    |-> IF "roughness" \in DOMAIN parameters /\ parameters["roughness"] # 0
                          THEN parameters["roughness"] ELSE FallbackRoughness,
         displacement |-> DisplacementConstant]]

NodeGraph(parameters) ==
    [graph |-> "elephantSkinTSL",
     parameters |->
        [albedoTint   |-> IF "color" \in DOMAIN parameters
                          THEN parameters["color"] ELSE FallbackAlbedoTint,
         roughness    |-> IF "roughness" \in DOMAIN parameters
                          THEN parameters["roughness"] ELSE FallbackRoughness,
         displacement |-> DisplacementConstant]]

\* Mutant: the node graph is attached only when the slot has a color.
MaterialSlotNodeGraphNeedsColor(name, definition, force_node_tsl) ==
    LET parameters == SlotParameters(definition)
    IN  IF force_node_tsl /\ "color" \in DOMAIN parameters
        THEN [slot |-> name, type |-> name, workflow |-> "node/tsl",
              parameters |-> parameters, nodeGraph |-> NodeGraph(parameters),
              useTSLSkin |-> TRUE]
        ELSE [slot |-> name, type |-> name, workflow |-> "pbr",
              parameters |-> parameters]

MaterialSlotFromDefinition(name, definition, force_node_tsl) ==
    LET parameters == SlotParameters(definition)
    IN  IF force_node_tsl
        THEN [slot |-> name, type |-> name, workflow |-> "node/tsl",
              parameters |-> parameters, nodeGraph |-> NodeGraph(parameters),
              useTSLSkin |-> TRUE]
        ELSE [slot |-> name, type |-> name, workflow |-> "pbr",
              parameters |-> parameters]

\* Mutant: the display name is searched without lower().
AnimalIsElephantCaseSensitive(blueprint) ==
    blueprint.hasTrunk \/ Contains(blueprint.name, ElephantWord)

\* blueprint.bodyPlan.hasTrunk or "elephant" in blueprint.meta.name.lower()
AnimalIsElephant(blueprint) ==
    blueprint.hasTrunk \/ Contains(Lower(blueprint.name), ElephantWord)

NamedSlots == <<"surface", "eye", "tusk", "nail">>

MaterialSlots(blueprint) ==
    LET materials == blueprint.materials
        elephant  == AnimalIsElephant(blueprint)
        present   == SelectSeq(NamedSlots, LAMBDA k : materials[k] # {})
        named     == [i \in DOMAIN present |->
                        MaterialSlotFromDefinition(present[i], TheOne(materials[present[i]]),
                                                   present[i] = "surface" /\ elephant)]
        extra     == [i \in DOMAIN materials.extraMaterials |->
                        MaterialSlotFromDefinition(materials.extraMaterials[i].key,
                                                   materials.extraMaterials[i].def, elephant)]
    IN  named \o extra

(***************************************************************************)
(* Bundle Exporter (export_service.py 42-61, 148-398).  A file name is a   *)
(* sequence of string pieces, so that "{name}Blueprint.json" is the        *)
(* display name followed by the piece "Blueprint.json".  The text written  *)
(* by json.dumps(payload, indent=2, sort_keys=True) is [json |-> payload]; *)
(* a digest is [sha256 |-> content] (no two contents share a digest).      *)
(***************************************************************************)
ContractVersion == "1.0.0"

DefaultMinZooVersion == "0.1.0"

JsonDumps(payload) == [json |-> payload]

ComputeSha256(content) == [sha256 |-> content]

AnimalDefinitionFile == <<"AnimalDefinition.json">>
MaterialsFile        == <<"materials.json">>
RuntimeFile          == <<"runtime.json">>
BlueprintFile        == <<"blueprint.json">>
ManifestFile         == <<"manifest.json">>

SpeciesBlueprintFile(name) == name \o <<"Blueprint.json">>

BodyPartsFromV2(definitions) ==
    [i \in DOMAIN definitions |->
        [name      |-> definitions[i].name,
         generator |-> definitions[i].generator,
         chain     |-> definitions[i].chain,
         options   |-> SerializableBodyPartOptions(definitions[i].options)]]

LegacyPartSlots ==
    <<"torso", "neck", "head", "trunk", "tail", "earLeft", "earRight",
      "frontLegL", "frontLegR", "backLegL", "backLegR">>

BodyPartsFromV1(config) ==
    LET set   == SelectSeq(LegacyPartSlots, LAMBDA k : InSet(DOMAIN config.refs, k))
        fixed == [i \in DOMAIN set |->
                    [name      |-> set[i],
                     generator |-> config.refs[set[i]].generator,
                     chain     |-> config.refs[set[i]].chain,
                     options   |-> SerializableBodyPartOptions(config.refs[set[i]].options)]]
        extra == [i \in DOMAIN config.extraParts |->
                    [name      |-> config.extraParts[i].key,
                     generator |-> config.extraParts[i].ref.generator,
                     chain     |-> config.extraParts[i].ref.chain,
                     options   |-> SerializableBodyPartOptions(config.extraParts[i].ref.options)]]
    IN  fixed \o extra

\* Mutant: the legacy parts are appended to the V2 parts.
BodyPartsMerged(blueprint) ==
    BodyPartsFromV2(blueprint.bodyPartsV2)
    \o (IF blueprint.bodyParts # {} THEN BodyPartsFromV1(TheOne(blueprint.bodyParts))
        ELSE <<>>)

\* The parts of the animal definition (lines 215-220): bodyPartsV2 when it
\* is non-empty, else the legacy bodyParts when set (a BodyPartsConfig is
\* always truthy), else nothing.
BodyParts(blueprint) ==
    IF blueprint.bodyPartsV2 # <<>> THEN BodyPartsFromV2(blueprint.bodyPartsV2)
    ELSE IF blueprint.bodyParts # {} THEN BodyPartsFromV1(TheOne(blueprint.bodyParts))
    ELSE <<>>

AnimalDefinitionPayload(blueprint, animal_safe, schema_version) ==
    LET skeleton ==
            [i \in DOMAIN blueprint.bones |->
                [name   |-> blueprint.bones[i].name,
                 parent |-> IF blueprint.bones[i].parent = "" THEN {}
                            ELSE {blueprint.bones[i].parent},
                 restTransform |-> [position |-> blueprint.bones[i].position,
                                    rotation |-> <<0, 0, 0>>,
                                    scale    |-> <<100, 100, 100>>]]]
        parts == BodyParts(blueprint)
        definition ==
            [contractVersion |-> ContractVersion,
             schemaVersion   |-> schema_version,
             minZooVersion   |-> DefaultMinZooVersion,
             speciesKey      |-> animal_safe,
             displayName     |-> blueprint.name,
             skeleton        |-> skeleton,
             parts           |-> parts,
             materials       |-> MaterialSlots(blueprint)]
    IN  IF blueprint.chains # {}
        THEN ("chains" :> TheOne(blueprint.chains)) @@ definition
        ELSE definition

\* Mutant: the materials payload is stamped with the time of the export.
MaterialsPayloadStamped(blueprint, schema_version) ==
    [contractVersion |-> ContractVersion,
     schemaVersion   |-> schema_version,
     minZooVersion   |-> DefaultMinZooVersion,
     slots           |-> MaterialSlots(blueprint),
     textures        |-> EmptyDoc,
     generatedAt     |-> clock]

MaterialsPayload(blueprint, schema_version) ==
    [contractVersion |-> ContractVersion,
     schemaVersion   |-> schema_version,
     minZooVersion   |-> DefaultMinZooVersion,
     slots           |-> MaterialSlots(blueprint),
     textures        |-> EmptyDoc]

\* Mutant: tags count as behaviour data and the behavior section is
\* emitted for them.
RuntimePayloadWithTags(blueprint, schema_version) ==
    LET presets    == blueprint.behaviorPresets
        locomotion == IF presets.gait # {} /\ presets.gait # {""}
                      THEN "locomotion" :> [gait |-> TheOne(presets.gait)]
                      ELSE EmptyDoc
        idle       == IF presets.idleBehaviors # <<>>
                      THEN "idleBehaviors" :> presets.idleBehaviors ELSE EmptyDoc
        special    == IF presets.specialInteractions # <<>>
                      THEN "specialInteractions" :> presets.specialInteractions
                      ELSE EmptyDoc
        behavior   == IF DOMAIN (idle @@ special) # {} \/ presets.tags # <<>>
                      THEN "behavior" :> (idle @@ special) ELSE EmptyDoc
    IN  locomotion @@ behavior @@
        [contractVersion |-> ContractVersion,
         schemaVersion   |-> schema_version,
         minZooVersion   |-> DefaultMinZooVersion]

RuntimePayload(blueprint, schema_version) ==
    LET presets    == blueprint.behaviorPresets
        locomotion == IF presets.gait # {} /\ presets.gait # {""}
                      THEN "locomotion" :> [gait |-> TheOne(presets.gait)]
                      ELSE EmptyDoc
        idle       == IF presets.idleBehaviors # <<>>
                      THEN "idleBehaviors" :> presets.idleBehaviors ELSE EmptyDoc
        special    == IF presets.specialInteractions # <<>>
                      THEN "specialInteractions" :> presets.specialInteractions
                      ELSE EmptyDoc
        behavior   == IF DOMAIN (idle @@ special) # {}
                      THEN "behavior" :> (idle @@ special) ELSE EmptyDoc
    IN  locomotion @@ behavior @@
        [contractVersion |-> ContractVersion,
         schemaVersion   |-> schema_version,
         minZooVersion   |-> DefaultMinZooVersion]

\* _manifest_payload; timestamp is the value datetime.now(timezone.utc)
\* returns during the call.
ManifestPayload(version, animal_name, schema_version, checksums, timestamp) ==
    [contractVersion |-> ContractVersion,
     schemaVersion   |-> schema_version,
     minZooVersion   |-> DefaultMinZooVersion,
     tooling         |-> [app |-> "CreatureStudio", version |-> version,
                          timestamp |-> timestamp],
     animal          |-> [speciesKey |-> animal_name, displayName |-> animal_name],
     payloads        |-> checksums]

\* Files written one after the other; a later write replaces an earlier one.
RECURSIVE ApplyWrites(_, _)
ApplyWrites(files, writes) ==
    IF writes = <<>> THEN files
    ELSE ApplyWrites((Head(writes).name :> Head(writes).content) @@ files, Tail(writes))

WriteOf(name, content) == [name |-> name, content |-> content]

\* Mutant: the bundle is named by the version alone.
BundleNameVersionOnly(animal_safe, version) == <<"V">> \o version

BundleName(animal_safe, version) == animal_safe \o <<"V">> \o version

ZipName(bundle_name) == bundle_name \o <<".zip">>

\* The payload files of export_animal in the order they are written
\* (lines 338-365).
PayloadWrites(blueprint, animal_safe, schema_version) ==
    << WriteOf(AnimalDefinitionFile,
               JsonDumps(AnimalDefinitionPayload(blueprint, animal_safe, schema_version))),
       WriteOf(MaterialsFile, JsonDumps(MaterialsPayload(blueprint, schema_version))),
       WriteOf(RuntimeFile, JsonDumps(RuntimePayload(blueprint, schema_version))),
       WriteOf(BlueprintFile, JsonDumps(ModelDump(blueprint))),
       WriteOf(SpeciesBlueprintFile(blueprint.name), JsonDumps(ModelDump(blueprint))) >>

\* The reference assets copied into the bundle (lines 369-375).
AssetWrites(blueprint, reference) ==
    IF blueprint.name \in DOMAIN reference THEN reference[blueprint.name] ELSE <<>>

\* Mutant: a file keeps the digest of the first content written under its
\* name; a reference asset copied over a payload does not refresh it.
ChecksumsOfFirstWrite(writes) ==
    LET first == {k \in DOMAIN writes : \A h \in 1..(k - 1) : writes[h].name # writes[k].name}
    IN  [f \in {writes[k].name : k \in first} |->
            ComputeSha256(writes[CHOOSE k \in first : writes[k].name = f].content)]

\* The checksums dict: each written or copied file is hashed right after
\* it reaches the staging directory.
Checksums(writes) ==
    LET table == ApplyWrites(NoFiles, writes)
    IN  [f \in DOMAIN table |-> ComputeSha256(table[f])]

\* Every write export_animal(blueprint, version) makes into the staging
\* directory, in order, when the clock reads timestamp: the payloads, the
\* reference assets, then the manifest.
ExportWrites(blueprint, version, reference, timestamp) ==
    LET animal_safe    == SafeAnimalName(blueprint.name)
        schema_version == blueprint.schemaVersion
        writes   == PayloadWrites(blueprint, animal_safe, schema_version)
                    \o AssetWrites(blueprint, reference)
        manifest == ManifestPayload(version, blueprint.name, schema_version,
                                    Checksums(writes), timestamp)
    IN  writes \o <<WriteOf(ManifestFile, JsonDumps(manifest))>>

\* The staging directory at the end of export_animal(blueprint, version).
ExportedFiles(blueprint, version, reference, timestamp) ==
    ApplyWrites(NoFiles, ExportWrites(blueprint, version, reference, timestamp))

(***************************************************************************)
(* Documents.  A display name is a sequence of characters.                 *)
(***************************************************************************)
NameLion == <<"L", "i", "o", "n">>

NoMaterials ==
    [surface |-> {}, eye |-> {}, tusk |-> {}, nail |-> {}, extraMaterials |-> <<>>]

MaterialDefinition(color, roughness) ==
    [color |-> color, roughness |-> roughness, metallic |-> {}, specular |-> {},
     emissive |-> {}]

NoBehaviorPresets ==
    [gait |-> {}, idleBehaviors |-> <<>>, specialInteractions |-> <<>>, tags |-> <<>>]

\* Bone (blueprint.py 49-58); every bone of the model rests at the origin.
Bone(name, parent) == [name |-> name, parent |-> parent, position |-> <<0, 0, 0>>]

\* A document with every optional section left out (blueprint.py 325-349).
BaseDoc ==
    [name            |-> NameLion,
     schemaVersion   |-> "4.2.0",
     hasTrunk        |-> FALSE,
     bones           |-> <<>>,
     chains          |-> {},
     bodyParts       |-> {},
     chainsV2        |-> <<>>,
     bodyPartsV2     |-> <<>>,
     materials       |-> NoMaterials,
     behaviorPresets |-> NoBehaviorPresets]

ChainDefinition(name, bones) == [name |-> name, bones |-> bones]

BodyPartDoc(name, generator, chain, hasOptions, options) ==
    [name |-> name, generator |-> generator, chain |-> chain,
     hasOptions |-> hasOptions, options |-> options]

Opt1(k, v) == k :> v

(***************************************************************************)
(* Bounds and input sets of the validation specifications                  *)
(***************************************************************************)
MaxChains     == 2
MaxChainBones == 2
MaxParts      == 2

SeqsUpTo(S, n) == UNION {[1..k -> S] : k \in 0..n}

BoneUniverse == {"b1", "b2"}

SkeletonChoices ==
    { <<>>, <<Bone("b1", "")>>, <<Bone("b2", "")>>, <<Bone("b1", ""), Bone("b2", "b1")>> }

PartNameAt == <<"p1", "p2", "p3", "p4">>

Generators == {"torsoGenerator", "futureGenerator"}

\* chainsV2 lists: the i-th chain is named NameOrder[i], its bones are any
\* sequence over the bone universe.
ChainLists ==
    {[i \in DOMAIN q |-> ChainDefinition(NameOrder[i], q[i])] :
        q \in SeqsUpTo(SeqsUpTo(BoneUniverse, MaxChainBones), MaxChains)}

NamedParts(q) ==
    [i \in DOMAIN q |-> BodyPartDoc(PartNameAt[i], q[i].generator, q[i].chain,
                                    q[i].hasOptions, q[i].options)]

GhostOptions == Opt1("additionalChains", JList(<<"ghost">>))

\* Option documents that reach every member of the union, keys no model
\* declares, and additionalChains lists with known and unknown names.
OptionDocs ==
    LET torsoFails == Opt1("lowPolySegments", JNum(2))
        neckFails  == torsoFails @@ Opt1("yOffset", JStr("high"))
        headFails  == neckFails @@ Opt1("radius", JNum(-100))
        noseFails  == headFails @@ Opt1("midRadius", JNum(-100))
        tailFails  == noseFails @@ Opt1("baseRadius", JNum(-100))
        earFails   == tailFails @@ Opt1("flatten", JNum(-100))
        allFail    == Opt1("sides", JNum(2))
    IN  { EmptyDoc,
          Opt1("sides", JNum(8)),
          Opt1("futureKey", JNum(7)),
          GhostOptions,
          Opt1("additionalChains", JList(<<"c1">>)),
          Opt1("additionalChains", JList(<<"c1", "ghost", "cx">>)) @@ allFail,
          Opt1("additionalChains", JList(<<"c1">>)) @@ allFail,
          Opt1("additionalChains", JNull) @@ allFail,
          allFail @@ Opt1("futureKey", JNum(7)),
          torsoFails @@ Opt1("sides", JNum(8)),
          neckFails,
          headFails,
          noseFails,
          tailFails @@ Opt1("tilt", JNum(5)),
          earFails @@ Opt1("capStart", JBool(FALSE)),
          torsoFails @@ Opt1("baseRadius", JNum(-100)) @@ Opt1("capStart", JBool(TRUE)) }

\* Inputs centred on the chains: every chain list, one simple body part.
ChainDocs ==
    {[BaseDoc EXCEPT !.bones = sk, !.chainsV2 = cs, !.bodyPartsV2 = ps] :
        sk \in SkeletonChoices, cs \in ChainLists,
        ps \in { <<>>, <<BodyPartDoc("p1", "torsoGenerator", "c1", FALSE, EmptyDoc)>> }}

PartChoices ==
    [generator : Generators, chain : {"c1", "c2", "cx"},
     hasOptions : {TRUE}, options : {EmptyDoc, GhostOptions}]

RoughnessChoices == { {}, {50}, {150} }

\* Inputs centred on the body parts: few chain lists, every list of parts,
\* and a surface material whose roughness may be out of range.
PartDocs ==
    {[BaseDoc EXCEPT !.bones = <<Bone("b1", "")>>, !.chainsV2 = cs,
                     !.bodyPartsV2 = NamedParts(q),
                     !.materials.surface = {MaterialDefinition({}, r)}] :
        cs \in { <<>>,
                 <<ChainDefinition("c1", <<"b1">>)>>,
                 <<ChainDefinition("c1", <<"b1">>), ChainDefinition("c2", <<"b1", "b1">>)>>,
                 <<ChainDefinition("c1", <<"b2">>)>> },
        q \in SeqsUpTo(PartChoices, MaxParts),
        r \in RoughnessChoices}

OptionChoices ==
    [generator : {"torsoGenerator"}, chain : {"c1"},
     hasOptions : {TRUE}, options : OptionDocs]
    \cup [generator : {"torsoGenerator"}, chain : {"c1"},
          hasOptions : {FALSE}, options : {EmptyDoc}]

\* Inputs centred on the options payload of the body parts.
OptionsDocs ==
    {[BaseDoc EXCEPT !.bones = <<Bone("b1", "")>>, !.chainsV2 = cs,
                     !.bodyPartsV2 = NamedParts(q)] :
        cs \in { <<ChainDefinition("c1", <<"b1">>)>>,
                 <<ChainDefinition("c1", <<"b1">>), ChainDefinition("cx", <<>>)>> },
        q \in SeqsUpTo(OptionChoices, MaxParts)}

(***************************************************************************)
(* State                                                                   *)
(***************************************************************************)
VARIABLES
    unionMode,    \* how this build resolves the BodyPartOptions union
    doc,          \* the raw document handed to validation
    pc,           \* "start", "validated", "serialized", "reloaded", "resolved", "export"
    result,       \* outcome of SpeciesBlueprint.parse_obj(doc)
    blueprint,    \* {} or {the typed blueprint} when validation passed
    dumped,       \* {} or {model_dump() of the blueprint}
    result2,      \* outcome of validating the dumped document again
    blueprint2,   \* {} or {the blueprint parsed from the dumped document}
    slots,        \* the material slots resolved for doc
    zooReference, \* base_dir/zoo_reference: display name -> list of asset files
    staging,      \* exports_dir: bundle name -> (file name -> content)
    archives,     \* exports_dir: zip name -> (archive path -> content)
    runs,         \* history: one record per completed export_animal call
    library,      \* the validated blueprints that callers hand to export_animal
    blueprintsDir, \* blueprints_dir: file name -> the JSON document in the file
    response,     \* what the last call returned or raised
    runtime,      \* the runtime payload computed for doc
    definition    \* the animal definition payload computed for doc

valVars == <<unionMode, doc, result, blueprint, dumped, result2, blueprint2>>

expVars == <<zooReference, clock, staging, archives, runs, library, blueprintsDir, response,
             runtime, definition>>

vars == <<valVars, pc, slots, expVars>>

\* No call made yet.
NoResponse == [op |-> "none", version |-> <<>>, status |-> 0]

ExportIdle ==
    /\ zooReference = NoFiles
    /\ clock = 0
    /\ staging = NoFiles
    /\ archives = NoFiles
    /\ runs = <<>>
    /\ library = {}
    /\ blueprintsDir = NoFiles
    /\ response = NoResponse
    /\ runtime = EmptyDoc
    /\ definition = EmptyDoc

NoResult == [status |-> "none", fields |-> {}, error |-> NoError]

InitValidation(docs) ==
    /\ unionMode \in UnionModes
    /\ doc \in docs
    /\ pc = "start"
    /\ result = NoResult
    /\ blueprint = {}
    /\ dumped = {}
    /\ result2 = NoResult
    /\ blueprint2 = {}
    /\ slots = <<>>
    /\ ExportIdle

\* SpeciesBlueprint.parse_obj(data) as called by load_blueprint,
\* import_blueprint_from_bytes and the request body of put_blueprint.
Validate ==
    /\ pc = "start"
    /\ result' = ParseObj(unionMode, doc)
    /\ blueprint' = IF result'.status = "ok" THEN {TypedBlueprint(unionMode, doc)} ELSE {}
    /\ pc' = "validated"
    /\ UNCHANGED <<unionMode, doc, dumped, result2, blueprint2, slots, expVars>>

\* save_blueprint: the blueprint is written as json.dumps(model_dump()).
Serialize ==
    /\ pc = "validated"
    /\ blueprint # {}
    /\ dumped' = {ModelDump(b) : b \in blueprint}
    /\ pc' = "serialized"
    /\ UNCHANGED <<unionMode, doc, result, blueprint, result2, blueprint2, slots, expVars>>

\* load_blueprint: the stored document is parsed and validated again.
Reload ==
    /\ pc = "serialized"
    /\ \E d \in dumped :
        /\ result2' = ParseObj(unionMode, d)
        /\ blueprint2' = IF result2'.status = "ok" THEN {TypedBlueprint(unionMode, d)} ELSE {}
    /\ pc' = "reloaded"
    /\ UNCHANGED <<unionMode, doc, result, blueprint, dumped, slots, expVars>>

NextValidation == Validate \/ Serialize \/ Reload

InitChains  == InitValidation(ChainDocs)
InitParts   == InitValidation(PartDocs)
InitOptions == InitValidation(OptionsDocs)

SpecChains  == InitChains /\ [][NextValidation]_vars
SpecParts   == InitParts /\ [][NextValidation]_vars
SpecOptions == InitOptions /\ [][NextValidation]_vars

(***************************************************************************)
(* Properties of validation.  They are stated over the raw document, not   *)
(* through the operators of the validator.                                 *)
(***************************************************************************)
Range(q) == {q[i] : i \in DOMAIN q}

DocBoneNames == {doc.bones[i].name : i \in DOMAIN doc.bones}

DocChainNames == {doc.chainsV2[i].name : i \in DOMAIN doc.chainsV2}

\* The chains of the document that reference a bone the skeleton lacks.
OffendingChains ==
    {i \in DOMAIN doc.chainsV2 : Range(doc.chainsV2[i].bones) \ DocBoneNames # {}}

\* The body parts of the document whose chain is no chainsV2 name.
DanglingParts ==
    {i \in DOMAIN doc.bodyPartsV2 : doc.bodyPartsV2[i].chain \notin DocChainNames}

\* The unknown names in the additionalChains list of the i-th part's options.
UnknownAdditional(i) ==
    LET o == doc.bodyPartsV2[i].options
    IN  IF "additionalChains" \in DOMAIN o /\ o["additionalChains"].t = "list"
        THEN Range(o["additionalChains"].l) \ DocChainNames
        ELSE {}

FieldsValid ==
    \A k \in {"surface", "eye", "tusk", "nail"} : \A d \in doc.materials[k] :
        \A x \in d.roughness \cup d.metallic \cup d.specular : 0 <= x /\ x <= 100

Validated == pc # "start"

C2_DanglingPartNeverPasses ==
    (Validated /\ DanglingParts # {}) =>
        /\ result.status \in {"field_error", "graph_error"}
        /\ blueprint = {}
        /\ (FieldsValid => result.status = "graph_error")

C2_Witness ==
    /\ pc = "validated"
    /\ DocChainNames # {}
    /\ OffendingChains = {}
    /\ FieldsValid
    /\ \E i \in DanglingParts : doc.bodyPartsV2[i].generator = "futureGenerator"
    /\ result.error.kind = "unknown_chain"

\* C3: a document with body parts and no chain fails validation, whatever
\* its other fields hold; when the fields parse, the failure is the
\* "chainsV2 must be provided" error.
C3_PartsWithoutChainsFail ==
    (Validated /\ doc.bodyPartsV2 # <<>> /\ doc.chainsV2 = <<>>) =>
        /\ result.status \in {"field_error", "graph_error"}
        /\ blueprint = {}
        /\ (FieldsValid => result.error.kind = "chains_required")

C3_Witness ==
    /\ pc = "validated"
    /\ Len(doc.bodyPartsV2) = 2
    /\ doc.chainsV2 = <<>>
    /\ result.error.kind = "chains_required"

\* C4 as stated: no document passes validation when the options of one of
\* its body parts list an additional chain that is no chainsV2 name.
C4_UnknownAdditionalNeverPasses ==
    (Validated /\ \E i \in DOMAIN doc.bodyPartsV2 :
                     doc.bodyPartsV2[i].hasOptions /\ UnknownAdditional(i) # {})
        => result.status # "ok"

C6_RoundTrip ==
    pc = "reloaded" => (result2.status = "ok" /\ blueprint2 = blueprint)

\* C7 as stated: every key of a body part's options in the input document
\* is present, with the same value, in the serialized blueprint.
C7_OptionsKeysKept ==
    (pc \in {"serialized", "reloaded"}) =>
        \A d \in dumped : \A i \in DOMAIN doc.bodyPartsV2 :
            \A k \in DOMAIN doc.bodyPartsV2[i].options :
                /\ k \in DOMAIN d.bodyPartsV2[i].options
                /\ d.bodyPartsV2[i].options[k] = doc.bodyPartsV2[i].options[k]

(***************************************************************************)
(* Material resolution as a step: the inputs are validated blueprints that *)
(* differ in display name, trunk flag and materials configuration.         *)
(***************************************************************************)
MaxExtraMaterials == 2

NameElephant == <<"E", "l", "e", "p", "h", "a", "n", "t">>
NameElephantBang == <<"E", "l", "e", "p", "h", "a", "n", "t", "!">>
NameUpperElephant == <<"A", "n", " ", "E", "L", "E", "P", "H", "A", "N", "T">>
NameElephDashAnt == <<"E", "l", "e", "p", "h", "-", "a", "n", "t">>

MaterialNames == {NameLion, NameElephantBang, NameUpperElephant, NameElephDashAnt}

\* A definition with every field set; metallic and specular are 0.0.
FullMaterial(color, emissive) ==
    [color |-> color, roughness |-> {35}, metallic |-> {0}, specular |-> {0},
     emissive |-> emissive]

SurfaceChoices ==
    { {}, {MaterialDefinition({"#112233"}, {})}, {MaterialDefinition({}, {0})},
      {MaterialDefinition({""}, {50})},
      {FullMaterial({"#112233"}, {"#000001"})}, {FullMaterial({}, {""})} }

SmallMaterialChoices == { {}, {MaterialDefinition({"#ffffff"}, {20})} }

ExtraKeyAt == <<"fur", "eye", "horn">>

ExtraMaterialLists ==
    {[i \in DOMAIN q |-> [key |-> ExtraKeyAt[i], def |-> q[i]]] :
        q \in SeqsUpTo({MaterialDefinition({}, {}), MaterialDefinition({"#445566"}, {90})},
                       MaxExtraMaterials)}

MaterialDocs ==
    {[BaseDoc EXCEPT !.name = n, !.hasTrunk = t,
                     !.materials = [surface |-> su, eye |-> ey, tusk |-> tu, nail |-> {},
                                    extraMaterials |-> ex]] :
        n \in MaterialNames, t \in BOOLEAN, su \in SurfaceChoices,
        ey \in SmallMaterialChoices, tu \in SmallMaterialChoices, ex \in ExtraMaterialLists}

\* _material_slots(blueprint) applied to the blueprint of the document.
ResolveMaterials ==
    /\ pc = "start"
    /\ slots' = MaterialSlots(TypedBlueprint(unionMode, doc))
    /\ pc' = "resolved"
    /\ UNCHANGED <<valVars, expVars>>

InitMaterials ==
    /\ unionMode \in UnionModes
    /\ doc \in MaterialDocs
    /\ pc = "start"
    /\ result = NoResult
    /\ blueprint = {}
    /\ dumped = {}
    /\ result2 = NoResult
    /\ blueprint2 = {}
    /\ slots = <<>>
    /\ ExportIdle

NextMaterials == ResolveMaterials

SpecMaterials == InitMaterials /\ [][NextMaterials]_vars

\* The display names that contain "elephant" in some letter case.
NamesWithElephant == {NameElephantBang, NameUpperElephant}

\* The named material slots the document populates, in the fixed order.
PopulatedNamed ==
    SelectSeq(<<"surface", "eye", "tusk", "nail">>, LAMBDA k : doc.materials[k] # {})

HasNodeGraph(slot) ==
    /\ "nodeGraph" \in DOMAIN slot
    /\ slot.nodeGraph.graph = "elephantSkinTSL"
    /\ DOMAIN slot.nodeGraph.parameters = {"albedoTint", "roughness", "displacement"}

\* C8: with a surface material, hasTrunk gives the surface slot the
\* node/tsl workflow and a populated nodeGraph; without a trunk and without
\* "elephant" in the display name the surface slot is pbr and has no
\* nodeGraph key.
C8_SurfaceWorkflow ==
    (pc = "resolved" /\ doc.materials.surface # {}) =>
        /\ slots[1].slot = "surface"
        /\ doc.hasTrunk => (slots[1].workflow = "node/tsl" /\ HasNodeGraph(slots[1]))
        /\ (~doc.hasTrunk /\ doc.name \notin NamesWithElephant) =>
              (slots[1].workflow = "pbr" /\ "nodeGraph" \notin DOMAIN slots[1])

C8_Witness ==
    /\ pc = "resolved"
    /\ doc.materials.surface # {}
    /\ doc.hasTrunk
    /\ doc.name = NameLion
    /\ slots[1].workflow = "node/tsl"
    /\ slots[1].nodeGraph.parameters.albedoTint = "#112233"

\* C9: for a trunk or an "elephant" display name (any letter case) the
\* surface slot and every extraMaterials slot are node/tsl; the eye, tusk
\* and nail slots are pbr without nodeGraph for every blueprint.  The
\* slots come in the fixed order: named slots, then extraMaterials.
C9_UpgradedSlots ==
    pc = "resolved" =>
        LET n        == Len(PopulatedNamed)
            extras   == doc.materials.extraMaterials
            elephant == doc.hasTrunk \/ doc.name \in NamesWithElephant
        IN  /\ Len(slots) = n + Len(extras)
            /\ \A i \in 1..n :
                /\ slots[i].slot = PopulatedNamed[i]
                /\ PopulatedNamed[i] \in {"eye", "tusk", "nail"} =>
                      (slots[i].workflow = "pbr" /\ "nodeGraph" \notin DOMAIN slots[i])
                /\ (PopulatedNamed[i] = "surface" /\ elephant) =>
                      slots[i].workflow = "node/tsl"
            /\ \A j \in DOMAIN extras :
                /\ slots[n + j].slot = extras[j].key
                /\ elephant => slots[n + j].workflow = "node/tsl"

C9_Witness ==
    /\ pc = "resolved"
    /\ ~doc.hasTrunk
    /\ doc.name = NameUpperElephant
    /\ Len(PopulatedNamed) = 3
    /\ Len(doc.materials.extraMaterials) = 2
    /\ slots[2].workflow = "pbr"
    /\ slots[5].workflow = "node/tsl"

(***************************************************************************)
(* Export as a step.  export_animal runs to completion (the design is      *)
(* single-threaded and request-scoped), so one step is one call.           *)
(***************************************************************************)
(* The blueprint store (blueprint_store.py).  blueprints_dir is a function *)
(* from file names to the documents in the files.  A file name is the      *)
(* characters of its stem followed by the extension as one element.        *)
(***************************************************************************)
JsonExt == <<".json">>

BlueprintSuffix == <<"B", "l", "u", "e", "p", "r", "i", "n", "t">>

\* directory / f"{name}.json"
DirectFile(name) == name \o JsonExt

\* directory / f"{name}Blueprint.json"
SuffixedFile(name) == name \o BlueprintSuffix \o JsonExt

PROTECTED_BLUEPRINTS == {NameElephant}

\* str.strip(): leading and trailing whitespace removed.
Whitespace == {" ", "\t", "\n"}

RECURSIVE LStrip(_)
LStrip(s) == IF s # <<>> /\ Head(s) \in Whitespace THEN LStrip(Tail(s)) ELSE s

RECURSIVE RStrip(_)
RStrip(s) ==
    IF s # <<>> /\ s[Len(s)] \in Whitespace THEN RStrip(SubSeq(s, 1, Len(s) - 1)) ELSE s

Strip(s) == RStrip(LStrip(s))

NameElephantBlueprint == NameElephant \o BlueprintSuffix
NamePaddedElephant == <<" ">> \o NameElephant

\* sorted(directory.glob("*.json")): the file names the model uses, in the
\* order of their characters (" " < "." < "B" < "E" < "L").
FileOrder ==
    << SuffixedFile(NamePaddedElephant), DirectFile(NameElephant),
       SuffixedFile(NameElephant), SuffixedFile(NameElephantBlueprint),
       DirectFile(NameLion), SuffixedFile(NameLion) >>

\* _iter_blueprint_files: the positions in FileOrder of the files present.
IterBlueprintFiles(dir) == {i \in DOMAIN FileOrder : FileOrder[i] \in DOMAIN dir}

\* The fallback scan of _resolve_name_to_path: the files, in sorted order,
\* that validate and whose meta.name is name (validation keeps meta.name).
FilesNamed(dir, mode, name) ==
    {i \in IterBlueprintFiles(dir) :
        /\ dir[FileOrder[i]].name = name
        /\ ParseObj(mode, dir[FileOrder[i]]).status = "ok"}

\* The first position of a set of positions, if any.
FirstOf(S) == {j \in S : \A k \in S : j <= k}

\* _resolve_name_to_path: {path}, or {} for BlueprintNotFoundError.
ResolveNameToPath(dir, mode, name) ==
    IF DirectFile(name) \in DOMAIN dir THEN {DirectFile(name)}
    ELSE IF SuffixedFile(name) \in DOMAIN dir THEN {SuffixedFile(name)}
    ELSE {FileOrder[i] : i \in FirstOf(FilesNamed(dir, mode, name))}

\* _load_json_file and SpeciesBlueprint.parse_obj on the resolved path.
LoadPath(dir, mode, paths) ==
    IF paths = {}
    THEN [status |-> "BlueprintNotFoundError", blueprint |-> {}]
    ELSE TheOne({ IF ParseObj(mode, dir[path]).status # "ok"
                  THEN [status |-> "BlueprintValidationError", blueprint |-> {}]
                  ELSE [status |-> "ok", blueprint |-> {TypedBlueprint(mode, dir[path])}] :
                  path \in paths })

\* load_blueprint: the blueprint, or the error raised.
LoadBlueprint(dir, mode, name) == LoadPath(dir, mode, ResolveNameToPath(dir, mode, name))

(***************************************************************************)
MaxExports == 2
MaxClock   == 2

Version1 == <<"1", ".", "0">>
Version2 == <<"2", ".", "0">>

Versions == {Version1, Version2}

ExportDoc(n, su, g) ==
    [BaseDoc EXCEPT !.name = n,
                    !.hasTrunk = (n = NameElephantBang),
                    !.bones = <<Bone("b1", ""), Bone("b2", "b1")>>,
                    !.chainsV2 = <<ChainDefinition("c1", <<"b1", "b2">>)>>,
                    !.bodyPartsV2 = <<BodyPartDoc("p1", "torsoGenerator", "c1", TRUE,
                                                  Opt1("sides", JNum(8)))>>,
                    !.materials.surface = su,
                    !.behaviorPresets.gait = g]

ExportDocs ==
    { ExportDoc(NameLion, {}, {}),
      ExportDoc(NameLion, {MaterialDefinition({"#112233"}, {})}, {"walk"}),
      ExportDoc(NameElephantBang, {}, {"walk"}),
      ExportDoc(NameElephantBang, {MaterialDefinition({"#112233"}, {})}, {}),
      ExportDoc(NameElephant, {}, {}) }

ExportBlueprints == {TypedBlueprint("smart", d) : d \in ExportDocs}

AssetFile(name, bytes) == WriteOf(<<name>>, [bytes |-> bytes])

ReferenceChoices ==
    { NoFiles,
      (NameElephantBang :> <<AssetFile("ElephantPen.js", "pen"),
                             AssetFile("ElephantCreature.js", "creature")>>) @@
      (NameElephant :> <<AssetFile("manifest.json", "zoo manifest"),
                         AssetFile("materials.json", "zoo materials")>>) }

\* Mutant: the staging directory of an earlier export is kept.
RemoveTreeKept(root, bundle_name) == root

\* if staging_dir.exists(): shutil.rmtree(staging_dir) (lines 332-333).
RemoveTree(root, bundle_name) == [d \in DOMAIN root \ {bundle_name} |-> root[d]]

\* staging_dir.mkdir(parents=True, exist_ok=True) (line 334).
MakeDir(root, bundle_name) ==
    IF bundle_name \in DOMAIN root THEN root ELSE (bundle_name :> NoFiles) @@ root

\* The files of one export written into its staging directory; a file
\* already there under a name the export does not write stays.
WriteFiles(root, bundle_name, files) ==
    [root EXCEPT ![bundle_name] = files @@ @]

\* Mutant: the archive is opened for appending and an existing one is kept.
WriteArchiveAppended(zips, root, bundle_name) ==
    LET zip_path == ZipName(bundle_name)
        old      == IF zip_path \in DOMAIN zips THEN zips[zip_path] ELSE NoFiles
    IN  (zip_path :> (root[bundle_name] @@ old)) @@ zips

\* zip_path.unlink() when the archive exists, then every file found under
\* the staging directory is added to a new archive (lines 388-396).
WriteArchive(zips, root, bundle_name) ==
    LET zip_path == ZipName(bundle_name)
        removed  == [z \in DOMAIN zips \ {zip_path} |-> zips[z]]
    IN  (zip_path :> root[bundle_name]) @@ removed

\* The body of export_animal(bp, version): nothing is checked before the
\* export root, the staging directory and the archive are written.
ExportAnimalCall(bp, version) ==
    /\ Len(runs) < MaxExports
    /\ \E timestamp \in clock..MaxClock :
        LET bundle_name == BundleName(SafeAnimalName(bp.name), version)
            writes      == ExportWrites(bp, version, zooReference, timestamp)
            files       == ExportedFiles(bp, version, zooReference, timestamp)
            staged      == WriteFiles(MakeDir(RemoveTree(staging, bundle_name),
                                              bundle_name),
                                      bundle_name, files)
        IN  /\ clock' = timestamp
            /\ staging' = staged
            /\ archives' = WriteArchive(archives, staged, bundle_name)
            /\ runs' = Append(runs, [blueprint |-> bp, version |-> version,
                                     timestamp |-> timestamp, bundle |-> bundle_name,
                                     written |-> [k \in DOMAIN writes |-> writes[k].name],
                                     files |-> files])

\* export_animal called by a caller that holds a validated blueprint.
ExportAnimal(bp, version) ==
    /\ pc = "export"
    /\ ExportAnimalCall(bp, version)
    /\ response' = [op |-> "export_animal", version |-> version, status |-> 200]
    /\ UNCHANGED <<valVars, pc, slots, runtime, definition, zooReference, library, blueprintsDir>>

\* The answer of POST /api/export/{name} when the request is refused.
ExportRefused(body_version, code) ==
    /\ response' = [op |-> "export_blueprint", version |-> body_version, status |-> code]
    /\ UNCHANGED <<valVars, pc, slots, runtime, definition, zooReference, library, blueprintsDir,
                   clock, staging, archives, runs>>

\* POST /api/export/{name} (routers/export.py 34-66).
ExportBlueprint(name, body_version) ==
    /\ pc = "export"
    /\ \E version \in {Strip(body_version)},
          loaded \in {LoadBlueprint(blueprintsDir, unionMode, name)} :
        IF version = <<>> THEN ExportRefused(body_version, 400)
        ELSE IF loaded.status = "BlueprintNotFoundError"
        THEN ExportRefused(body_version, 404)
        ELSE IF loaded.status = "BlueprintValidationError"
        THEN ExportRefused(body_version, 422)
        ELSE \E bp \in loaded.blueprint :
                /\ ExportAnimalCall(bp, version)
                /\ response' = [op |-> "export_blueprint", version |-> body_version,
                                 status |-> 200]
                /\ UNCHANGED <<valVars, pc, slots, runtime, definition, zooReference, library,
                               blueprintsDir>>

InitExport ==
    /\ unionMode = "smart"
    /\ doc = BaseDoc
    /\ pc = "export"
    /\ result = NoResult
    /\ blueprint = {}
    /\ dumped = {}
    /\ result2 = NoResult
    /\ blueprint2 = {}
    /\ slots = <<>>
    /\ zooReference \in ReferenceChoices
    /\ clock = 0
    /\ staging = NoFiles
    /\ archives = NoFiles
    /\ runs = <<>>
    /\ library = ExportBlueprints
    /\ blueprintsDir = NoFiles
    /\ response = NoResponse
    /\ runtime = EmptyDoc
    /\ definition = EmptyDoc

NextExport == \E bp \in library, version \in Versions : ExportAnimal(bp, version)

SpecExport == InitExport /\ [][NextExport]_vars

\* Two exports in succession of the same blueprint with the same version.
RepeatedExports ==
    {i \in 1..(Len(runs) - 1) :
        runs[i].blueprint = runs[i + 1].blueprint /\ runs[i].version = runs[i + 1].version}

PayloadChecksum(run, file) == run.files[ManifestFile].json.payloads[file]

\* C10 as stated: the second of two successive exports of one blueprint and
\* version writes manifest.json, materials.json and AnimalDefinition.json
\* byte-identical to the first.
C10_ThreeFilesIdentical ==
    \A i \in RepeatedExports :
        \A f \in {ManifestFile, MaterialsFile, AnimalDefinitionFile} :
            runs[i].files[f] = runs[i + 1].files[f]

\* C10 (amended): materials.json and AnimalDefinition.json are
\* byte-identical across the two runs and so are their checksums in the
\* manifest; manifest.json is identical except for tooling.timestamp, and
\* byte-identical exactly when the clock read the same in both runs.
C10_DeterministicPayloads ==
    \A i \in RepeatedExports :
        LET m1 == runs[i].files[ManifestFile].json
            m2 == runs[i + 1].files[ManifestFile].json
        IN  /\ \A f \in {MaterialsFile, AnimalDefinitionFile} :
                /\ runs[i].files[f] = runs[i + 1].files[f]
                /\ PayloadChecksum(runs[i], f) = PayloadChecksum(runs[i + 1], f)
                /\ PayloadChecksum(runs[i + 1], f) = [sha256 |-> runs[i + 1].files[f]]
            /\ [m1 EXCEPT !.tooling.timestamp = 0] = [m2 EXCEPT !.tooling.timestamp = 0]
            /\ (m1 = m2) <=> (runs[i].timestamp = runs[i + 1].timestamp)

C10_Witness ==
    /\ RepeatedExports # {}
    /\ runs[1].blueprint.name = NameElephantBang
    /\ runs[1].blueprint.materials.surface # {}
    /\ zooReference # NoFiles
    /\ runs[1].timestamp < runs[2].timestamp
    /\ runs[2].bundle \in DOMAIN staging


\* The exports after which no later export used the same staging directory.
LastExports ==
    {i \in DOMAIN runs : \A j \in (i + 1)..Len(runs) : runs[j].bundle # runs[i].bundle}

\* C11: after an export, and so after a second export of one species key
\* and version, the staging directory holds exactly the files that export
\* wrote, with the contents it wrote; no file of an earlier export of the
\* same species key and version that the later export does not write is
\* left in it.
C11_StagingFullyReplaced ==
    \A i \in LastExports :
        /\ runs[i].bundle \in DOMAIN staging
        /\ staging[runs[i].bundle] = runs[i].files

\* A second export into the staging directory of a first one that wrote a
\* file the second does not write.
C11_Witness ==
    /\ Len(runs) = 2
    /\ runs[1].bundle = runs[2].bundle
    /\ DOMAIN runs[1].files \ DOMAIN runs[2].files # {}
    /\ DOMAIN staging[runs[2].bundle] = DOMAIN runs[2].files

(***************************************************************************)
(* The export endpoint and the export service side by side: requests to    *)
(* POST /api/export/{name} and direct calls of export_animal, with version *)
(* strings that are empty or blank.                                        *)
(***************************************************************************)
VersionEmpty  == <<>>
VersionBlank  == <<" ", " ">>
VersionPadded == <<" ">> \o Version1 \o <<" ">>

NameRex == <<"T", "_", "r", "e", "x", " ", "2", "!">>

RequestVersions == {Version1, VersionPadded, VersionEmpty, VersionBlank}

\* The document of the shipped ElephantBlueprint.json.
StoredElephant == ExportDoc(NameElephant, {}, {"walk"})

InitExportApi ==
    /\ unionMode = "smart"
    /\ doc = BaseDoc
    /\ pc = "export"
    /\ result = NoResult
    /\ blueprint = {}
    /\ dumped = {}
    /\ result2 = NoResult
    /\ blueprint2 = {}
    /\ slots = <<>>
    /\ zooReference = NoFiles
    /\ clock = 0
    /\ staging = NoFiles
    /\ archives = NoFiles
    /\ runs = <<>>
    /\ library = {TypedBlueprint("smart", StoredElephant),
                  TypedBlueprint("smart", ExportDoc(NameRex, {}, {}))}
    /\ blueprintsDir = SuffixedFile(NameElephant) :> StoredElephant
    /\ response = NoResponse
    /\ runtime = EmptyDoc
    /\ definition = EmptyDoc

NextExportApi ==
    \/ \E name \in {NameElephant, NameLion}, body_version \in RequestVersions :
            ExportBlueprint(name, body_version)
    \/ \E bp \in library, version \in {Version1, VersionBlank} : ExportAnimal(bp, version)

SpecExportApi == InitExportApi /\ [][NextExportApi]_vars

\* C12: an export whose version string is empty or blank after trimming
\* fails with the empty-version error and does no I/O: the last call, when
\* its version is blank, was answered 400, and no export that wrote under
\* the export root ran with a blank version.
C12_BlankVersionRejected ==
    /\ (response.op # "none" /\ Strip(response.version) = <<>>) => response.status = 400
    /\ \A i \in DOMAIN runs : Strip(runs[i].version) # <<>>

\* C13: in every export the manifest is the last file written into the
\* staging directory, and the checksum table of the manifest has no entry
\* for manifest.json, also when reference assets are copied into the bundle.
C13_ManifestLastAndUnlisted ==
    \A i \in DOMAIN runs :
        /\ runs[i].written[Len(runs[i].written)] = ManifestFile
        /\ ManifestFile \notin DOMAIN runs[i].files[ManifestFile].json.payloads

\* C14: after an export, every file of the bundle other than manifest.json
\* (payloads, blueprint copies, copied reference assets) has an entry under
\* its name in the checksum table of the manifest, and the entry is the
\* SHA-256 digest of the content the file has in the finished staging
\* directory and in the archive.
C14_ChecksumsMatchBundle ==
    \A i \in LastExports :
        LET dir      == staging[runs[i].bundle]
            zip      == archives[ZipName(runs[i].bundle)]
            payloads == dir[ManifestFile].json.payloads
        IN  /\ DOMAIN zip = DOMAIN dir
            /\ \A f \in DOMAIN dir \ {ManifestFile} :
                    /\ f \in DOMAIN payloads
                    /\ payloads[f] = ComputeSha256(dir[f])
                    /\ zip[f] = dir[f]

\* An export whose reference directory holds an asset called
\* materials.json, copied over the materials payload.
C14_Witness ==
    /\ runs # <<>>
    /\ runs[Len(runs)].blueprint.name = NameElephant
    /\ NameElephant \in DOMAIN zooReference
    /\ staging[runs[Len(runs)].bundle][MaterialsFile] = [bytes |-> "zoo materials"]
    /\ <<"ElephantPen.js">> \notin DOMAIN staging[runs[Len(runs)].bundle]

\* The blueprint carries locomotion or behaviour data: a gait, idle
\* behaviours or special interactions.
HasRuntimeData(bp) ==
    \/ bp.behaviorPresets.gait \notin {{}, {""}}
    \/ bp.behaviorPresets.idleBehaviors # <<>>
    \/ bp.behaviorPresets.specialInteractions # <<>>

\* C15: a bundle contains runtime.json (written, checksummed, archived)
\* only if the exported blueprint has locomotion or behaviour data.
C15_RuntimeOnlyWithData ==
    \A i \in DOMAIN runs :
        (\/ RuntimeFile \in DOMAIN runs[i].files
         \/ RuntimeFile \in DOMAIN runs[i].files[ManifestFile].json.payloads
         \/ RuntimeFile \in DOMAIN archives[ZipName(runs[i].bundle)])
            => HasRuntimeData(runs[i].blueprint)

(***************************************************************************)
(* The runtime payload of documents over every combination of gait, idle   *)
(* behaviours, special interactions and tags.                              *)
(***************************************************************************)
MaxBehaviors == 1

GaitChoices == { {}, {""}, {"walk"} }

BehaviorLists == SeqsUpTo({"graze", "trumpet"}, MaxBehaviors)

RuntimeDocs ==
    {[BaseDoc EXCEPT !.behaviorPresets =
        [gait |-> g, idleBehaviors |-> idle, specialInteractions |-> special,
         tags |-> tags]] :
        g \in GaitChoices, idle \in BehaviorLists, special \in BehaviorLists,
        tags \in BehaviorLists}

\* _runtime_payload(blueprint, schema_version) for the blueprint of doc.
ComputeRuntime ==
    /\ pc = "start"
    /\ \E bp \in {TypedBlueprint(unionMode, doc)} :
            runtime' = RuntimePayload(bp, bp.schemaVersion)
    /\ pc' = "computed"
    /\ UNCHANGED <<valVars, slots, definition, zooReference, clock, staging, archives,
                   runs, library, blueprintsDir, response>>

InitRuntime ==
    /\ unionMode \in UnionModes
    /\ doc \in RuntimeDocs
    /\ pc = "start"
    /\ result = NoResult
    /\ blueprint = {}
    /\ dumped = {}
    /\ result2 = NoResult
    /\ blueprint2 = {}
    /\ slots = <<>>
    /\ ExportIdle

NextRuntime == ComputeRuntime

SpecRuntime == InitRuntime /\ [][NextRuntime]_vars

\* C16: in the runtime payload the locomotion section is present exactly
\* when a gait is set (a non-empty string), the behavior section exactly
\* when idleBehaviors or specialInteractions is non-empty; a section that
\* is present is never an empty object and holds exactly the data that is
\* there; tags never make a section appear.
C16_RuntimeSections ==
    pc = "computed" =>
        LET presets == doc.behaviorPresets
            hasGait == presets.gait \notin {{}, {""}}
            hasIdle == presets.idleBehaviors # <<>>
            hasSpecial == presets.specialInteractions # <<>>
        IN  /\ ("locomotion" \in DOMAIN runtime) <=> hasGait
            /\ hasGait => runtime["locomotion"] = [gait |-> TheOne(presets.gait)]
            /\ ("behavior" \in DOMAIN runtime) <=> (hasIdle \/ hasSpecial)
            /\ (hasIdle \/ hasSpecial) =>
                  /\ DOMAIN runtime["behavior"] =
                        {k \in {"idleBehaviors", "specialInteractions"} : presets[k] # <<>>}
                  /\ \A k \in DOMAIN runtime["behavior"] : runtime["behavior"][k] = presets[k]
            /\ DOMAIN runtime \subseteq {"contractVersion", "schemaVersion", "minZooVersion",
                                          "locomotion", "behavior"}

\* A payload computed for a document with tags and nothing else.
C16_Witness ==
    /\ pc = "computed"
    /\ doc.behaviorPresets.tags # <<>>
    /\ doc.behaviorPresets.gait = {}
    /\ doc.behaviorPresets.idleBehaviors = <<>>
    /\ doc.behaviorPresets.specialInteractions = <<>>
    /\ DOMAIN runtime = {"contractVersion", "schemaVersion", "minZooVersion"}

\* A character is an ASCII letter, a digit or the underscore.
IsWordChar(c) ==
    \/ \E k \in DOMAIN UpperCase : c = UpperCase[k] \/ c = LowerCase[k]
    \/ \E k \in DOMAIN Digits : c = Digits[k]
    \/ c = "_"

\* key is name with the characters that are not word characters removed
\* and the others kept in order.
IsStrippedName(key, name) ==
    LET kept == {j \in DOMAIN name : IsWordChar(name[j])}
    IN  /\ Len(key) = Cardinality(kept)
        /\ \A j \in kept : key[Cardinality({h \in kept : h <= j})] = name[j]

\* C17: the species key of an export is the display name without the
\* characters that are not ASCII letters, digits or underscores, and the
\* export leaves a staging directory {speciesKey}V{version} and an archive
\* {speciesKey}V{version}.zip under the export root, and nothing else.
C17_SpeciesKeyAndNames ==
    /\ \A i \in DOMAIN runs :
        \E n \in 0..Len(runs[i].bundle) :
            LET key == SubSeq(runs[i].bundle, 1, n)
            IN  /\ IsStrippedName(key, runs[i].blueprint.name)
                /\ runs[i].bundle = key \o <<"V">> \o runs[i].version
                /\ runs[i].bundle \in DOMAIN staging
                /\ runs[i].bundle \o <<".zip">> \in DOMAIN archives
                /\ runs[i].files[AnimalDefinitionFile].json.speciesKey = key
    /\ Cardinality(DOMAIN staging) <= Len(runs)
    /\ Cardinality(DOMAIN archives) <= Len(runs)

\* An export of a display name with a space, a digit, an underscore and
\* an exclamation mark.
C17_Witness ==
    /\ runs # <<>>
    /\ runs[1].blueprint.name = NameRex
    /\ runs[1].version = Version1
    /\ <<"T", "_", "r", "e", "x", "2", "V", "1", ".", "0">> \in DOMAIN staging

(***************************************************************************)
(* The animal definition of documents with and without bodyPartsV2 and     *)
(* with and without the legacy bodyParts mapping.                          *)
(***************************************************************************)
MaxExtraParts == 2

LegacyRef(generator, chain) ==
    [generator |-> generator, chain |-> chain, hasOptions |-> FALSE, options |-> EmptyDoc]

ExtraPartAt == <<"wing", "horn", "crest">>

\* The legacy mappings: any subset of three fixed slots, and up to
\* MaxExtraParts extra parts.
LegacyConfigs ==
    {[refs       |-> [k \in set |-> LegacyRef(k, "legacy")],
      extraParts |-> [i \in 1..n |-> [key |-> ExtraPartAt[i],
                                       ref |-> LegacyRef(ExtraPartAt[i], "legacy")]]] :
        set \in SUBSET {"tail", "head", "torso"}, n \in 0..MaxExtraParts}

BodyPartLists ==
    { <<>>,
      <<BodyPartDoc("p1", "torsoGenerator", "c1", FALSE, EmptyDoc)>>,
      <<BodyPartDoc("tail", "tailGenerator", "c1", TRUE, Opt1("sides", JNum(8))),
        BodyPartDoc("p1", "torsoGenerator", "c1", FALSE, EmptyDoc)>> }

BodyPartsDocs ==
    {[BaseDoc EXCEPT !.bones = <<Bone("b1", "")>>,
                     !.chainsV2 = <<ChainDefinition("c1", <<"b1">>)>>,
                     !.bodyPartsV2 = v2,
                     !.bodyParts = v1] :
        v2 \in BodyPartLists, v1 \in {{}} \cup {{c} : c \in LegacyConfigs}}

\* _animal_definition_payload for the blueprint of doc.
ComputeDefinition ==
    /\ pc = "start"
    /\ \E bp \in {TypedBlueprint(unionMode, doc)} :
            definition' = AnimalDefinitionPayload(bp, SafeAnimalName(bp.name),
                                                  bp.schemaVersion)
    /\ pc' = "computed"
    /\ UNCHANGED <<valVars, slots, runtime, zooReference, clock, staging, archives,
                   runs, library, blueprintsDir, response>>

InitBodyParts ==
    /\ unionMode \in UnionModes
    /\ doc \in BodyPartsDocs
    /\ pc = "start"
    /\ result = NoResult
    /\ blueprint = {}
    /\ dumped = {}
    /\ result2 = NoResult
    /\ blueprint2 = {}
    /\ slots = <<>>
    /\ ExportIdle

NextBodyParts == ComputeDefinition

SpecBodyParts == InitBodyParts /\ [][NextBodyParts]_vars

\* part is the entry of the definition for a part called name that uses
\* generator on chain.
IsPartEntry(part, name, generator, chain) ==
    /\ part.name = name
    /\ part.generator = generator
    /\ part.chain = chain

\* C18: the parts of the animal definition are the bodyPartsV2 entries in
\* order when bodyPartsV2 is non-empty; otherwise, when the legacy
\* bodyParts mapping is present, its fixed slots that are set, in the
\* order torso, head, tail, followed by extraParts in their order;
\* otherwise empty.  The two sources are never merged.
C18_BodyPartPrecedence ==
    pc = "computed" =>
        LET parts == definition.parts
        IN  IF doc.bodyPartsV2 # <<>>
            THEN /\ Len(parts) = Len(doc.bodyPartsV2)
                 /\ \A i \in DOMAIN parts :
                        IsPartEntry(parts[i], doc.bodyPartsV2[i].name,
                                    doc.bodyPartsV2[i].generator, doc.bodyPartsV2[i].chain)
            ELSE IF doc.bodyParts # {}
            THEN \A c \in doc.bodyParts :
                    LET n == Cardinality(DOMAIN c.refs)
                    IN  /\ Len(parts) = n + Len(c.extraParts)
                        /\ {parts[i].name : i \in 1..n} = DOMAIN c.refs
                        /\ \A i \in 1..n : \A j \in 1..n :
                              (parts[i].name = "torso" /\ i # j) => i < j
                        /\ \A i \in 1..n : \A j \in 1..n :
                              (parts[i].name = "tail" /\ i # j) => j < i
                        /\ \A i \in 1..n :
                              IsPartEntry(parts[i], parts[i].name,
                                          c.refs[parts[i].name].generator,
                                          c.refs[parts[i].name].chain)
                        /\ \A i \in DOMAIN c.extraParts :
                              IsPartEntry(parts[n + i], c.extraParts[i].key,
                                          c.extraParts[i].ref.generator,
                                          c.extraParts[i].ref.chain)
            ELSE parts = <<>>

\* A definition computed for a document that has bodyPartsV2 and a legacy
\* mapping with three fixed slots and two extra parts.
C18_Witness ==
    /\ pc = "computed"
    /\ Len(doc.bodyPartsV2) = 2
    /\ \E c \in doc.bodyParts : DOMAIN c.refs = {"tail", "head", "torso"}
                                  /\ Len(c.extraParts) = 2
    /\ Len(definition.parts) = 2

(***************************************************************************)
(* Store operations (blueprint_store.py and routers/blueprints.py).  One   *)
(* action is one HTTP request: the handler and the store calls it makes.   *)
(***************************************************************************)
TEMPLATE_FILE_MAP ==
    (<<"q", "u", "a", "d", "r", "u", "p", "e", "d">> :> "TemplateQuadruped.json") @@
    (<<"b", "i", "p", "e", "d">> :> "TemplateBiped.json") @@
    (<<"w", "i", "n", "g", "e", "d">> :> "TemplateWinged.json") @@
    (<<"w", "i", "n", "g", "e", "d", "_", "q", "u", "a", "d", "r", "u", "p", "e", "d">> :> "TemplateWinged.json") @@
    (<<"n", "o", "-", "p", "e", "d">> :> "TemplateNoPed.json") @@
    (<<"n", "o", "_", "p", "e", "d">> :> "TemplateNoPed.json") @@
    (<<"n", "o", "p", "e", "d", "s">> :> "TemplateNoPed.json")

\* save_blueprint: meta.name is set to name and the dump of the blueprint
\* is written to {name}Blueprint.json, over whatever the file held.
SaveBlueprint(dir, name, bp) ==
    (SuffixedFile(name) :> ModelDump([bp EXCEPT !.name = name])) @@ dir

\* The answer to a store request.
StoreResponse(op, name, code) == [op |-> op, name |-> name, status |-> code]

\* A store request that changes nothing in the blueprints directory.
StoreRefused(op, name, code) ==
    /\ response' = StoreResponse(op, name, code)
    /\ UNCHANGED blueprintsDir

\* DELETE /api/blueprints/{name} with delete_blueprint (lines 194-209).
DeleteBlueprint(name) ==
    IF name \in PROTECTED_BLUEPRINTS THEN StoreRefused("delete_blueprint", name, 400)
    ELSE \E path \in {ResolveNameToPath(blueprintsDir, unionMode, name)} :
            IF path = {} THEN StoreRefused("delete_blueprint", name, 404)
            ELSE /\ blueprintsDir' = [f \in DOMAIN blueprintsDir \ path |-> blueprintsDir[f]]
                 /\ response' = StoreResponse("delete_blueprint", name, 200)

\* The answer of PUT: the blueprint handed to save_blueprint and the one the
\* closing load_blueprint(name) returned (the response body).
PutResponse(name, saved, loaded) ==
    [op |-> "put_blueprint", name |-> name,
     status |-> IF loaded.status = "ok" THEN 200 ELSE 500,
     saved |-> saved, body |-> loaded.blueprint]

\* PUT /api/blueprints/{name} (routers/blueprints.py 129-152); a body that
\* is not a valid SpeciesBlueprint is answered 422 before the handler runs.
\* The handler sets meta.name, saves, and returns load_blueprint(name).
PutBlueprint(name, body) ==
    IF ParseObj(unionMode, body).status # "ok" THEN StoreRefused("put_blueprint", name, 422)
    ELSE \E bp \in {[TypedBlueprint(unionMode, body) EXCEPT !.name = name]} :
         \E saved \in {SaveBlueprint(blueprintsDir, name, bp)} :
            /\ blueprintsDir' = saved
            /\ response' = PutResponse(name, bp, LoadBlueprint(saved, unionMode, name))

\* templates_dir: the template files that are installed.
TemplatesDir ==
    [f \in {"TemplateQuadruped.json", "TemplateBiped.json"} |->
        [BaseDoc EXCEPT !.name = <<"T">>, !.schemaVersion = f]]

\* Mutant: a label the map does not know falls back to the quadruped
\* template instead of raising.
LoadTemplateBlueprintFallback(mode, template_type) ==
    TheOne({ [status |-> "ok",
              blueprint |-> {TypedBlueprint(mode, TemplatesDir[
                  IF key \in DOMAIN TEMPLATE_FILE_MAP
                     /\ TEMPLATE_FILE_MAP[key] \in DOMAIN TemplatesDir
                  THEN TEMPLATE_FILE_MAP[key] ELSE "TemplateQuadruped.json"])}] :
             key \in {Lower(Strip(template_type))} })

\* load_template_blueprint (lines 237-272): the template, or the error.
LoadTemplateBlueprint(mode, template_type) ==
    TheOne({ IF key = <<>> \/ key \notin DOMAIN TEMPLATE_FILE_MAP
             THEN [status |-> "BlueprintValidationError", blueprint |-> {}]
             ELSE IF TEMPLATE_FILE_MAP[key] \notin DOMAIN TemplatesDir
             THEN [status |-> "BlueprintNotFoundError", blueprint |-> {}]
             ELSE IF ParseObj(mode, TemplatesDir[TEMPLATE_FILE_MAP[key]]).status # "ok"
             THEN [status |-> "BlueprintValidationError", blueprint |-> {}]
             ELSE [status |-> "ok",
                   blueprint |-> {TypedBlueprint(mode, TemplatesDir[TEMPLATE_FILE_MAP[key]])}] :
             key \in {Lower(Strip(template_type))} })

\* The answer to a create request, refused or not; refusals leave the
\* blueprints directory alone.
CreateResponse(request_name, template_type, code) ==
    [op |-> "create_blueprint", name |-> request_name, template |-> template_type,
     status |-> code]

CreateRefused(request_name, template_type, code) ==
    /\ response' = CreateResponse(request_name, template_type, code)
    /\ UNCHANGED blueprintsDir

\* POST /api/blueprints with create_blueprint_from_template (lines
\* 275-319): 409 for a protected name, 400 for a validation error, 500 for
\* any other exception.
CreateBlueprint(request_name, template_type) ==
    \E name \in {Strip(request_name)} :
        IF name = <<>> THEN CreateRefused(request_name, template_type, 400)
        ELSE IF name \in PROTECTED_BLUEPRINTS
        THEN CreateRefused(request_name, template_type, 409)
        ELSE IF SuffixedFile(name) \in DOMAIN blueprintsDir
        THEN CreateRefused(request_name, template_type, 400)
        ELSE \E template \in {LoadTemplateBlueprint(unionMode, template_type)} :
                IF template.status = "BlueprintValidationError"
                THEN CreateRefused(request_name, template_type, 400)
                ELSE IF template.status = "BlueprintNotFoundError"
                THEN CreateRefused(request_name, template_type, 500)
                ELSE \E bp \in template.blueprint :
                        /\ blueprintsDir' = SaveBlueprint(blueprintsDir, name, bp)
                        /\ response' = CreateResponse(request_name, template_type, 200)

\* A direct call of load_template_blueprint(template_type): what it raised,
\* or "ok"; no HTTP status is involved.
LoadTemplate(template_type) ==
    /\ response' = [op |-> "load_template_blueprint", name |-> template_type, status |-> 0,
                    raised |-> LoadTemplateBlueprint(unionMode, template_type).status]
    /\ UNCHANGED blueprintsDir

\* Mutant: the blueprint is saved before the name is checked.
ImportBlueprintSaveFirst(payload) ==
    IF payload.text # "json" \/ ParseObj(unionMode, payload.raw).status # "ok"
    THEN StoreRefused("import_blueprint", payload.raw.name, 400)
    ELSE \E name \in {Strip(payload.raw.name)} :
            /\ blueprintsDir' = SaveBlueprint(blueprintsDir, name,
                                              TypedBlueprint(unionMode, payload.raw))
            /\ response' = StoreResponse("import_blueprint", payload.raw.name,
                                IF name = <<>> THEN 400
                                ELSE IF name \in PROTECTED_BLUEPRINTS THEN 409 ELSE 200)

\* POST /api/blueprints/import with import_blueprint_from_bytes (lines
\* 322-376).  payload.text says whether the bytes decode as UTF-8 and parse
\* as JSON; payload.raw is the document they hold when they do.
ImportBlueprint(payload) ==
    IF payload.text # "json" THEN StoreRefused("import_blueprint", payload.raw.name, 400)
    ELSE IF ParseObj(unionMode, payload.raw).status # "ok"
    THEN StoreRefused("import_blueprint", payload.raw.name, 400)
    ELSE \E name \in {Strip(payload.raw.name)} :
            IF name = <<>> THEN StoreRefused("import_blueprint", payload.raw.name, 400)
            ELSE IF name \in PROTECTED_BLUEPRINTS
            THEN StoreRefused("import_blueprint", payload.raw.name, 409)
            ELSE /\ blueprintsDir' = SaveBlueprint(blueprintsDir, name,
                                                   TypedBlueprint(unionMode, payload.raw))
                 /\ response' = StoreResponse("import_blueprint", payload.raw.name, 200)

\* GET /api/blueprints/{name} (routers/blueprints.py 104-120).
GetBlueprint(name) ==
    \E loaded \in {LoadBlueprint(blueprintsDir, unionMode, name)} :
        StoreRefused("get_blueprint", name,
                     IF loaded.status = "ok" THEN 200
                     ELSE IF loaded.status = "BlueprintNotFoundError" THEN 404 ELSE 422)

\* The names requests use, and the documents they carry.
StoreNames == {NameElephant, NameElephantBlueprint, NamePaddedElephant, NameLion}

StoreDoc(name, schema_version, roughness) ==
    [BaseDoc EXCEPT !.name = name, !.schemaVersion = schema_version,
                    !.materials.surface = {MaterialDefinition({}, roughness)}]

\* The document of the shipped ElephantBlueprint.json of the store.
ShippedElephant == StoreDoc(NameElephant, "4.2.0", {50})

RequestDocs ==
    {StoreDoc(n, "9.9.9", {50}) : n \in StoreNames \cup {<<" ">>}}
    \cup {StoreDoc(NameLion, "9.9.9", {150})}

TemplateTypes ==
    { <<"b", "i", "p", "e", "d">>, <<" ", "B", "i", "p", "e", "d">>,
      <<"w", "i", "n", "g", "e", "d">>, <<"d", "r", "a", "g", "o", "n">>,
      <<" ", "\t">>, <<>> }

\* Uploads: bytes that are not UTF-8, text that is not JSON, and documents.
ImportPayloads ==
    {[text |-> "json", raw |-> d] : d \in RequestDocs}
    \cup {[text |-> t, raw |-> StoreDoc(NameLion, "9.9.9", {50})] : t \in {"not_utf8", "not_json"}}

StoreStep(A) ==
    /\ pc = "store"
    /\ A
    /\ UNCHANGED <<valVars, pc, slots, runtime, definition, zooReference, clock, staging,
                   archives, runs, library>>

InitStore ==
    /\ unionMode \in UnionModes
    /\ doc = BaseDoc
    /\ pc = "store"
    /\ result = NoResult
    /\ blueprint = {}
    /\ dumped = {}
    /\ result2 = NoResult
    /\ blueprint2 = {}
    /\ slots = <<>>
    /\ zooReference = NoFiles
    /\ clock = 0
    /\ staging = NoFiles
    /\ archives = NoFiles
    /\ runs = <<>>
    /\ library = {}
    /\ blueprintsDir = SuffixedFile(NameElephant) :> ShippedElephant
    /\ response = NoResponse
    /\ runtime = EmptyDoc
    /\ definition = EmptyDoc

NextStore ==
    \/ \E name \in StoreNames : StoreStep(DeleteBlueprint(name))
    \/ \E name \in StoreNames, body \in RequestDocs : StoreStep(PutBlueprint(name, body))
    \/ \E name \in StoreNames \cup {<<" ">>}, template_type \in TemplateTypes :
            StoreStep(CreateBlueprint(name, template_type))
    \/ \E payload \in ImportPayloads : StoreStep(ImportBlueprint(payload))
    \/ \E template_type \in TemplateTypes : StoreStep(LoadTemplate(template_type))
    \/ \E name \in StoreNames : StoreStep(GetBlueprint(name))

SpecStore == InitStore /\ [][NextStore]_vars

\* C19: the stored file of the protected blueprint (Elephant) is never
\* removed: after any sequence of store requests it is still in the
\* blueprints directory, whatever name a delete request used.
C19_ProtectedNeverDeleted ==
    SuffixedFile(NameElephant) \in DOMAIN blueprintsDir

\* C20: the stored document of the protected name is never replaced: as
\* long as the file is there it holds the document it held at the start,
\* whatever create, import and PUT requests were made.
C20_ProtectedNeverOverwritten ==
    SuffixedFile(NameElephant) \in DOMAIN blueprintsDir
        => blueprintsDir[SuffixedFile(NameElephant)] = ShippedElephant

\* C21: after a PUT of a blueprint under a name succeeds, the load of that
\* name returns the blueprint that was just saved, with the name of the
\* request as its meta.name, whatever other files are in the store.
C21_SaveThenLoad ==
    (response.op = "put_blueprint" /\ response.status = 200)
        => /\ response.body = {response.saved}
           /\ \A bp \in response.body : bp.name = response.name

\* C22: when a PUT under an unprotected name succeeded and the delete of
\* that name that follows it succeeds, the file {name}Blueprint.json the PUT
\* wrote is gone and a load of the name raises BlueprintNotFoundError.
C22_SaveThenDelete ==
    [][(/\ response.op = "put_blueprint" /\ response.status = 200
        /\ response.name \notin PROTECTED_BLUEPRINTS
        /\ response'.op = "delete_blueprint" /\ response'.status = 200
        /\ response'.name = response.name)
       => /\ SuffixedFile(response.name) \notin DOMAIN blueprintsDir'
          /\ LoadBlueprint(blueprintsDir', unionMode, response.name).status
                = "BlueprintNotFoundError"]_vars

(***************************************************************************)
(* Validation of legacy documents: the deprecated chains map (Chains,      *)
(* blueprint.py 68-85) and bodyParts mapping, with and without the V2      *)
(* lists.                                                                  *)
(***************************************************************************)
\* Legacy chains maps: the named chains that are set, each a list of bone
\* names; "b2" and "b9" may be missing from the skeleton.
LegacyChainMaps ==
    { ("spine" :> <<"b1">>),
      ("spine" :> <<"b1", "b9">>),
      ("spine" :> <<"b1">>) @@ ("tail" :> <<"b2">>),
      ("tail" :> <<"b9">>) }

\* Legacy bodyParts mappings whose parts target chains that the legacy map
\* may or may not have, and chains no document defines.
LegacyPartMaps ==
    {[refs       |-> ("torso" :> LegacyRef("torsoGenerator", c1)),
      extraParts |-> [i \in 1..n |-> [key |-> ExtraPartAt[i],
                                       ref |-> LegacyRef("limbGenerator", c2)]]] :
        c1 \in {"spine", "ghost"}, c2 \in {"tail", "ghost"}, n \in 0..1}

LegacyDocs ==
    {[BaseDoc EXCEPT !.bones = sk, !.chains = ch, !.bodyParts = v1,
                     !.chainsV2 = cs, !.bodyPartsV2 = ps,
                     !.materials.surface = {MaterialDefinition({}, r)}] :
        sk \in { <<>>, <<Bone("b1", "")>> },
        ch \in {{}} \cup {{m} : m \in LegacyChainMaps},
        v1 \in {{}} \cup {{c} : c \in LegacyPartMaps},
        cs \in { <<>>, <<ChainDefinition("c1", <<"b1">>)>> },
        ps \in { <<>>, <<BodyPartDoc("p1", "torsoGenerator", "c1", FALSE, EmptyDoc)>> },
        r \in { {50}, {150} }}

InitLegacy == InitValidation(LegacyDocs)

SpecLegacy == InitLegacy /\ [][NextValidation]_vars

IsLegacyDoc(d) == d.chainsV2 = <<>> /\ d.bodyPartsV2 = <<>>

\* C23: a document whose chainsV2 and bodyPartsV2 are both empty never gets
\* a graph validation error, on first validation or after a save and
\* reload, whatever its legacy chains and bodyParts maps reference.
C23_LegacySkipsGraphCheck ==
    IsLegacyDoc(doc) =>
        /\ result.status # "graph_error"
        /\ result2.status # "graph_error"

\* A validated legacy document whose chains map names a bone the skeleton
\* lacks and whose body parts target a chain nothing defines.
C23_Witness ==
    /\ pc = "validated"
    /\ IsLegacyDoc(doc)
    /\ doc.bones = <<>>
    /\ \E m \in doc.chains : "spine" \in DOMAIN m /\ m["spine"] = <<"b1", "b9">>
    /\ \E c \in doc.bodyParts : c.refs["torso"].chain = "ghost"
    /\ result.status = "ok"

(***************************************************************************)
(* The parameters and the node graph of the resolved material slots        *)
(***************************************************************************)
MaterialFields == {"color", "roughness", "metallic", "specular", "emissive"}

\* The material definition the i-th resolved slot was made from.
SlotSource(i) ==
    IF i <= Len(PopulatedNamed)
    THEN TheOne(doc.materials[PopulatedNamed[i]])
    ELSE doc.materials.extraMaterials[i - Len(PopulatedNamed)].def

\* C24 as stated: the parameters of every slot have a key exactly when the
\* field of the source definition is non-null, with the source value.
C24_ParametersMirrorNonNull ==
    pc = "resolved" =>
        \A i \in DOMAIN slots :
            /\ DOMAIN slots[i].parameters = {k \in MaterialFields : SlotSource(i)[k] # {}}
            /\ \A k \in DOMAIN slots[i].parameters :
                    slots[i].parameters[k] \in SlotSource(i)[k]

\* C24, amended: the parameters of every slot have the key roughness,
\* metallic or specular exactly when the source field is non-null, and the
\* key color or emissive exactly when the source field is non-null and not
\* the empty string; every key carries the source value, none a null.
C24_ParametersMirrorSetFields ==
    pc = "resolved" =>
        \A i \in DOMAIN slots :
            /\ DOMAIN slots[i].parameters =
                  {k \in MaterialFields :
                      /\ SlotSource(i)[k] # {}
                      /\ k \in {"color", "emissive"} => SlotSource(i)[k] # {""}}
            /\ \A k \in DOMAIN slots[i].parameters :
                    slots[i].parameters[k] \in SlotSource(i)[k]

\* A surface slot made from a definition with an empty emissive string and
\* no color, whose metallic and specular are 0.0.
C24_Witness ==
    /\ pc = "resolved"
    /\ doc.materials.surface = {FullMaterial({}, {""})}
    /\ DOMAIN slots[1].parameters = {"roughness", "metallic", "specular"}
    /\ slots[1].parameters["metallic"] = 0


\* The color and the roughness the i-th slot carries in its parameters.
SlotColor(i) ==
    IF "color" \in DOMAIN slots[i].parameters THEN {slots[i].parameters["color"]} ELSE {}

SlotRoughness(i) ==
    IF "roughness" \in DOMAIN slots[i].parameters
    THEN {slots[i].parameters["roughness"]} ELSE {}

\* C27: every slot upgraded to the node workflow has a nodeGraph with the
\* fixed graph identifier, albedoTint equal to the color of the slot when
\* it has one and "#7a6f63" otherwise, roughness equal to the roughness of
\* the slot when set (0 included) and 0.78 otherwise, and displacement
\* 0.02; useTSLSkin is set exactly on the slots that have a nodeGraph, and
\* those are exactly the node workflow slots.
C27_NodeGraphDefaults ==
    pc = "resolved" =>
        \A i \in DOMAIN slots :
            /\ ("useTSLSkin" \in DOMAIN slots[i]) = ("nodeGraph" \in DOMAIN slots[i])
            /\ ("nodeGraph" \in DOMAIN slots[i]) = (slots[i].workflow = "node/tsl")
            /\ "useTSLSkin" \in DOMAIN slots[i] => slots[i].useTSLSkin = TRUE
            /\ slots[i].workflow = "node/tsl" =>
                /\ slots[i].nodeGraph.graph = "elephantSkinTSL"
                /\ DOMAIN slots[i].nodeGraph.parameters
                      = {"albedoTint", "roughness", "displacement"}
                /\ slots[i].nodeGraph.parameters.albedoTint
                      = (IF SlotColor(i) # {} THEN TheOne(SlotColor(i)) ELSE "#7a6f63")
                /\ slots[i].nodeGraph.parameters.roughness
                      = (IF SlotRoughness(i) # {} THEN TheOne(SlotRoughness(i)) ELSE 78)
                /\ slots[i].nodeGraph.parameters.displacement = 2
                /\ SlotColor(i) = SlotSource(i).color \ {""}
                /\ SlotRoughness(i) = SlotSource(i).roughness

\* An upgraded surface slot with roughness 0.0 and no color, next to an
\* upgraded extraMaterials slot that has neither and a pbr eye slot.
C27_Witness ==
    /\ pc = "resolved"
    /\ doc.materials.surface = {MaterialDefinition({}, {0})}
    /\ doc.materials.eye # {}
    /\ Len(doc.materials.extraMaterials) >= 1
    /\ doc.materials.extraMaterials[1].def = MaterialDefinition({}, {})
    /\ slots[1].nodeGraph.parameters.roughness = 0
    /\ slots[1].nodeGraph.parameters.albedoTint = "#7a6f63"
    /\ slots[2].workflow = "pbr"
    /\ slots[3].nodeGraph.parameters.roughness = 78


\* C25: after an export the archive {speciesKey}V{version}.zip holds
\* exactly the files of the staging directory, under their names relative
\* to it and with their contents; files of an earlier archive of the same
\* name are not kept.
C25_ArchiveMirrorsStaging ==
    \A i \in LastExports :
        LET zip_path == SafeAnimalName(runs[i].blueprint.name) \o <<"V">>
                            \o runs[i].version \o <<".zip">>
        IN  /\ zip_path \in DOMAIN archives
            /\ archives[zip_path] = staging[runs[i].bundle]
            /\ DOMAIN archives[zip_path] = DOMAIN runs[i].files

\* A second export of one species key and version after a first one whose
\* archive held reference assets that the second export does not write.
C25_Witness ==
    /\ Len(runs) = 2
    /\ runs[1].bundle = runs[2].bundle
    /\ \E f \in DOMAIN runs[1].files \ DOMAIN runs[2].files :
            f \notin DOMAIN archives[ZipName(runs[2].bundle)]
    /\ ManifestFile \in DOMAIN archives[ZipName(runs[2].bundle)]


\* C28: in the bundle of every export the speciesKey of the animal block of
\* manifest.json equals the speciesKey of AnimalDefinition.json, and that
\* key followed by V and the version names the staging directory and,
\* with .zip, the archive.
C28_SpeciesKeyConsistent ==
    \A i \in DOMAIN runs :
        LET manifest   == runs[i].files[ManifestFile].json
            animal_def == runs[i].files[AnimalDefinitionFile].json
        IN  /\ manifest.animal.speciesKey = animal_def.speciesKey
            /\ runs[i].bundle = animal_def.speciesKey \o <<"V">> \o runs[i].version
            /\ ZipName(runs[i].bundle) \in DOMAIN archives


\* Two exports keep apart: their staging directories differ, their
\* archives differ, and the staging directory and archive of each still
\* hold the files its own export wrote, unless a third, later export used
\* the same location.
ExportsKeptApart(i, j) ==
    /\ runs[i].bundle # runs[j].bundle
    /\ ZipName(runs[i].bundle) # ZipName(runs[j].bundle)
    /\ \A k \in {i, j} \cap LastExports :
        /\ runs[k].bundle \in DOMAIN staging
        /\ staging[runs[k].bundle] = runs[k].files
        /\ ZipName(runs[k].bundle) \in DOMAIN archives
        /\ archives[ZipName(runs[k].bundle)] = runs[k].files

\* The characters of a display name that are ASCII letters, digits or
\* underscores, in order.
WordChars(name) == SelectSeq(name, IsWordChar)

\* C30 as stated: two exports with the same version of blueprints whose
\* display names differ never share a staging directory or an archive.
C30_DistinctNamesKeptApart ==
    \A i \in DOMAIN runs : \A j \in DOMAIN runs :
        (/\ runs[i].blueprint.name # runs[j].blueprint.name
         /\ runs[i].version = runs[j].version)
            => ExportsKeptApart(i, j)

\* C30, amended: two exports with the same version of blueprints whose
\* display names differ in their ASCII letters, digits and underscores
\* never share a staging directory or an archive, and neither replaces the
\* bundle of the other.
C30_DistinctKeysKeptApart ==
    \A i \in DOMAIN runs : \A j \in DOMAIN runs :
        (/\ WordChars(runs[i].blueprint.name) # WordChars(runs[j].blueprint.name)
         /\ runs[i].version = runs[j].version)
            => ExportsKeptApart(i, j)

\* Exports of "Elephant!" and then "Lion" with the same version, both
\* bundles in place.
C30_Witness ==
    /\ Len(runs) = 2
    /\ runs[1].blueprint.name = NameElephantBang
    /\ runs[2].blueprint.name = NameLion
    /\ runs[1].version = runs[2].version
    /\ staging[runs[1].bundle] = runs[1].files
    /\ runs[1].bundle # runs[2].bundle


\* A template label that, trimmed and lower-cased, is empty or is no key of
\* the template map.
IsUnknownLabel(label) ==
    \E key \in {Lower(Strip(label))} : key = <<>> \/ key \notin DOMAIN TEMPLATE_FILE_MAP

\* C26: load_template_blueprint raises BlueprintValidationError for every
\* label that is empty or unknown after trimming and lower-casing, and a
\* create request with such a label fails and leaves the blueprints
\* directory as it was.
C26_UnknownTemplateRefused ==
    [][/\ (response'.op = "load_template_blueprint" /\ IsUnknownLabel(response'.name))
            => response'.raised = "BlueprintValidationError"
       /\ (response'.op = "create_blueprint" /\ IsUnknownLabel(response'.template))
            => (response'.status # 200 /\ blueprintsDir' = blueprintsDir)]_vars

\* A create request for a free, unprotected name with the label "dragon":
\* answered 400, and no file of that name is in the store.
C26_Witness ==
    /\ response.op = "create_blueprint"
    /\ response.name = NameLion
    /\ response.template = <<"d", "r", "a", "g", "o", "n">>
    /\ response.status = 400
    /\ SuffixedFile(NameLion) \notin DOMAIN blueprintsDir
    /\ DirectFile(NameLion) \notin DOMAIN blueprintsDir

\* C29: a create or import request that fails (any answer but 200) leaves
\* the blueprints directory unchanged: no file is created, modified or
\* removed.
C29_FailedRequestsChangeNothing ==
    [][(response'.op \in {"create_blueprint", "import_blueprint"} /\ response'.status # 200)
            => blueprintsDir' = blueprintsDir]_vars

\* An import of a document named "Elephant" answered 409 while the store
\* holds the shipped Elephant and a saved Lion.
C29_Witness ==
    /\ response.op = "import_blueprint"
    /\ response.name = NameElephant
    /\ response.status = 409
    /\ SuffixedFile(NameLion) \in DOMAIN blueprintsDir
    /\ blueprintsDir[SuffixedFile(NameElephant)] = ShippedElephant

=============================================================================
